---------------------------- MODULE Spec2Model ----------------------------
(***************************************************************************)
(* Team-name resolution, completed-game ingestion and record merge of the  *)
(* AEI ratings scripts (getMCBBscores.py, getMCBBscoresn.py,               *)
(* getCFBscores.py, NBA/NHL standings scrapers, update_ratings.py,         *)
(* pfr_scraper.py).                                                        *)
(*                                                                         *)
(* A name is a sequence of characters; a character is a one-symbol string. *)
(* The non-ASCII characters the scripts handle are spelled out:           *)
(*   "e_acute"    U+00E9  (precomposed e with acute)                       *)
(*   "A_tilde"    U+00C3  (first half of the mis-decoded e-acute)          *)
(*   "a_tilde"    U+00E3  (lower case of U+00C3)                           *)
(*   "copyright"  U+00A9  (second half of the mis-decoded e-acute)         *)
(*   "comb_acute" U+0301, "comb_tilde" U+0303  (combining marks, Mn)       *)
(***************************************************************************)
EXTENDS Integers, Sequences, FiniteSets, TLC

VARIABLES
    valid_team_names,   \* the universe load_team_names returned (a set of names)
    order,              \* the order in which this process enumerates that set
    script,             \* which script's resolver runs
    full_name,          \* the raw display name handed to clean_team_name
    plain_name,         \* the same name without rank marker, correctly encoded
    cleaned,            \* clean_team_name(full_name, valid_team_names)
    plain_cleaned,      \* clean_team_name(plain_name, valid_team_names)
    restarted,          \* a new process enumerated the set after `cleaned` was computed
    pc,                 \* where the score fetcher stands: fetch, events, save, done
    url_index,          \* how many of API_URLS have been handled
    n_events,           \* events walked so far in this run
    all_game_data,      \* the rows collected for the CSV file
    seen_games,         \* the game ids already recorded
    csv_file,           \* the rows of the written CSV file, header excluded
    reported,           \* url, away and home team of each completed game the responses held
    existing_data,      \* the rows of the standings file as the merge receives them
    scraped_data,       \* the scraped or fetched records handed to the merge
    merged_data,        \* the rows after the first application of the merge
    merged_again,       \* the rows after applying the same records to merged_data
    merge_pc,           \* start, merged, again, or crashed (an uncaught exception)
    store_file,         \* the standings file on disk: header and rows, or absent
    store_before,       \* the standings file as it was before the sync ran
    sync_pc,            \* start, done, or crashed (the script died of an exception)
    ratings_file,       \* data/nba.csv on disk: header and rows
    ratings_df,         \* the rating table as process_games loaded it
    scores_df,          \* the game rows of nba_scores_previous_day.csv
    current_ratings,    \* the dict Team -> Rating the loop updates
    updated_teams,      \* the teams whose rating a game of this run changed
    game_index,         \* the game row the loop stands at (1-based)
    elo_pc,             \* load, loop, saved, returned, or crashed
    last_game,          \* arguments and result of the last calculate_new_elo call
    fetch_index,        \* the league or URL the run stands at (1-based)
    fetch_pc,           \* call, waiting (the request is out), or finished
    source_silent,      \* the source of the request that is out never answers
    attempts,           \* how often each league or URL was requested
    outcome,            \* per league or URL: none, failed, skipped, updated, answered
    league_files,       \* update_ratings: the store file of each league
    last_response,      \* the last JSON body handed to the extractor, and its result
    shared_file,        \* data/nba.csv while both NBA scripts run on it
    shared_start,       \* data/nba.csv before the first of these runs
    run_log             \* the runs so far: script and how it ended

names_vars == <<valid_team_names, order, script>>

resolver_vars == <<full_name, plain_name, cleaned, plain_cleaned, restarted>>

games_vars == <<pc, url_index, n_events, all_game_data, seen_games, csv_file, reported>>

merge_vars == <<existing_data, scraped_data, merged_data, merged_again, merge_pc>>

sync_vars == <<store_file, store_before, sync_pc>>

elo_vars == <<ratings_file, ratings_df, scores_df, current_ratings, updated_teams, game_index, elo_pc,
              last_game>>

fetch_vars == <<fetch_index, fetch_pc, source_silent, attempts, outcome, league_files, last_response>>

share_vars == <<shared_file, shared_start, run_log>>

vars == <<names_vars, resolver_vars, games_vars, merge_vars, sync_vars, elo_vars, fetch_vars, share_vars>>

----------------------------------------------------------------------------
(* Python values that are not names.                                        *)

\* None, as clean_team_name returns it
None == <<"<None>">>

\* a result variable before its call has run
Unset == <<"<unset>">>

\* `not x` for a name or None
Falsy(x) == x = <<>> \/ x = None

----------------------------------------------------------------------------
(* Characters.                                                              *)

UpperLetters == <<"A","B","C","D","E","F","G","H","I","J","K","L","M",
                  "N","O","P","Q","R","S","T","U","V","W","X","Y","Z","A_tilde">>

LowerLetters == <<"a","b","c","d","e","f","g","h","i","j","k","l","m",
                  "n","o","p","q","r","s","t","u","v","w","x","y","z","a_tilde">>

Digits == {"0","1","2","3","4","5","6","7","8","9"}

\* unicodedata.category(c) == 'Mn'
IsMn(c) == c \in {"comb_acute", "comb_tilde"}

\* \s of str.strip() and str.split()
IsSpace(c) == c = " "

\* \w of a str pattern: alphanumeric or underscore
IsWordChar(c) ==
    \/ c \in Digits
    \/ c \in {"_", "e_acute"}
    \/ \E i \in 1..Len(UpperLetters) : c = UpperLetters[i] \/ c = LowerLetters[i]

\* str.lower() on one character
LowerChar(c) ==
    IF \E i \in 1..Len(UpperLetters) : c = UpperLetters[i]
    THEN LowerLetters[CHOOSE i \in 1..Len(UpperLetters) : c = UpperLetters[i]]
    ELSE c

\* str.lower()
lower(s) == [i \in 1..Len(s) |-> LowerChar(s[i])]

----------------------------------------------------------------------------
(* String primitives of Python used by the resolvers.                       *)

\* s[i:] (0-based i)
From(s, i) == SubSeq(s, i + 1, Len(s))

\* s.startswith(p)
StartsWith(s, p) == Len(p) <= Len(s) /\ SubSeq(s, 1, Len(p)) = p

\* p in s
Contains(s, p) == \E i \in 0..(Len(s) - Len(p)) : SubSeq(s, i + 1, i + Len(p)) = p

\* s.replace(old, new): non-overlapping occurrences, left to right
RECURSIVE replace(_, _, _)
replace(s, old, new) ==
    IF Len(s) < Len(old) \/ old = <<>> THEN s
    ELSE IF StartsWith(s, old) THEN new \o replace(From(s, Len(old)), old, new)
    ELSE <<s[1]>> \o replace(Tail(s), old, new)

RECURSIVE lstrip(_)
lstrip(s) == IF s # <<>> /\ IsSpace(s[1]) THEN lstrip(Tail(s)) ELSE s

RECURSIVE rstrip(_)
rstrip(s) == IF s # <<>> /\ IsSpace(s[Len(s)]) THEN rstrip(SubSeq(s, 1, Len(s) - 1)) ELSE s

\* s.strip()
strip(s) == rstrip(lstrip(s))

\* s.split()[0] of a string that holds a non-space character
RECURSIVE TakeWord(_)
TakeWord(s) == IF s = <<>> \/ IsSpace(s[1]) THEN <<>> ELSE <<s[1]>> \o TakeWord(Tail(s))

FirstWord(s) == TakeWord(lstrip(s))

----------------------------------------------------------------------------
(* Unicode normalization on the modelled characters.                        *)

\* canonical composition of a base character and a combining mark, or <<>>
Compose(b, m) ==
    CASE b = "e" /\ m = "comb_acute" -> <<"e_acute">>
      [] b = "a" /\ m = "comb_tilde" -> <<"a_tilde">>
      [] b = "A" /\ m = "comb_tilde" -> <<"A_tilde">>
      [] OTHER -> <<>>

\* canonical decomposition of one character
Decompose(c) ==
    CASE c = "e_acute" -> <<"e", "comb_acute">>
      [] c = "a_tilde" -> <<"a", "comb_tilde">>
      [] c = "A_tilde" -> <<"A", "comb_tilde">>
      [] OTHER -> <<c>>

\* unicodedata.normalize('NFC', s)
RECURSIVE NFC(_)
NFC(s) ==
    IF Len(s) < 2 THEN s
    ELSE IF Compose(s[1], s[2]) # <<>>
         THEN Compose(s[1], s[2]) \o NFC(From(s, 2))
         ELSE <<s[1]>> \o NFC(Tail(s))

\* unicodedata.normalize('NFD', s)
RECURSIVE NFD(_)
NFD(s) == IF s = <<>> THEN <<>> ELSE Decompose(s[1]) \o NFD(Tail(s))

RECURSIVE DropMn(_)
DropMn(s) ==
    IF s = <<>> THEN <<>>
    ELSE IF IsMn(s[1]) THEN DropMn(Tail(s)) ELSE <<s[1]>> \o DropMn(Tail(s))

\* strip_accents(text)
strip_accents(text) == IF text = <<>> THEN text ELSE DropMn(NFD(text))

----------------------------------------------------------------------------
(* normalize_name: the literal repairs and the rank-marker removal.         *)

Mojibake_Jose == <<"J","o","s","A_tilde","copyright">>

Fixed_Jose == <<"J","o","s","e_acute">>

Ascii_San_Jose == <<"S","a","n"," ","J","o","s","e">>

Fixed_San_Jose == <<"S","a","n"," ","J","o","s","e_acute">>

Nittany_Lions == <<"N","i","t","t","a","n","y"," ","L","i","o","n","s">>

Penn_State == <<"P","e","n","n"," ","S","t","a","t","e">>

No_dot == <<"N","o","."," ">>

\* FixGlitches without the repair of the mis-decoded e-acute
FixGlitches_no_mojibake(name) ==
    replace(replace(name, Ascii_San_Jose, Fixed_San_Jose), Nittany_Lions, Penn_State)

\* the chained .replace() calls that fix known encoding glitches
FixGlitches(name) ==
    replace(replace(replace(name, Mojibake_Jose, Fixed_Jose),
                    Ascii_San_Jose, Fixed_San_Jose),
            Nittany_Lions, Penn_State)

\* name.replace("No. ", "").strip()
RemoveRankPrefix(name) == strip(replace(name, No_dot, <<>>))

\* normalize_name of getMCBBscores.py (getCFBscores.py has the same body)
normalize_name(raw_name) ==
    IF Falsy(raw_name) THEN raw_name
    ELSE RemoveRankPrefix(FixGlitches(NFC(raw_name)))

\* normalize_name of getMCBBscoresn.py: no 'Nittany Lions' replacement
normalize_name_n(raw_name) ==
    IF Falsy(raw_name) THEN raw_name
    ELSE RemoveRankPrefix(replace(replace(NFC(raw_name), Mojibake_Jose, Fixed_Jose),
                                  Ascii_San_Jose, Fixed_San_Jose))

----------------------------------------------------------------------------
(* clean_team_name of getMCBBscores.py.  The universe is handed over as the *)
(* sequence in which the process enumerates the set valid_team_names.       *)

\* the dict comprehension {strip_accents(name.lower()): name for name in ...}:
\* a later name with the same key replaces the value and keeps the key's place
RECURSIVE PutKey(_, _, _)
PutKey(d, k, v) ==
    IF d = <<>> THEN << [key |-> k, name |-> v] >>
    ELSE IF d[1].key = k THEN << [key |-> k, name |-> v] >> \o Tail(d)
    ELSE << d[1] >> \o PutKey(Tail(d), k, v)

RECURSIVE BuildDict(_, _)
BuildDict(names, d) ==
    IF names = <<>> THEN d
    ELSE BuildDict(Tail(names), PutKey(d, strip_accents(lower(names[1])), names[1]))

valid_processed(names) == BuildDict(names, <<>>)

\* Lookup that hands back the folded key instead of the stored name
Lookup_returns_key(d, k) == k

\* valid_processed[k] for a key that is present
Lookup(d, k) == d[CHOOSE i \in 1..Len(d) : d[i].key = k].name

HasKey(d, k) == \E i \in 1..Len(d) : d[i].key = k

\* \b at offset p of s: exactly one of the two neighbours is a word character
WordBoundaryAt(s, p) ==
    LET before == p >= 1 /\ p <= Len(s) /\ IsWordChar(s[p])
        after  == p + 1 <= Len(s) /\ IsWordChar(s[p + 1])
    IN  before # after

\* re.match(rf'^{re.escape(team_key)}(\b|$)', s)
PrefixMatch(team_key, s) ==
    /\ StartsWith(s, team_key)
    /\ (WordBoundaryAt(s, Len(team_key)) \/ Len(team_key) = Len(s))

\* the words that, right after the prefix, indicate another institution
InstitutionWords == {
    <<"s","t","a","t","e">>,
    <<"c","o","l","l","e","g","e">>,
    <<"u","n","i","v","e","r","s","i","t","y">>,
    <<"t","e","c","h">>,
    <<"i","n","s","t","i","t","u","t","e">>,
    <<"c","o","m","m","u","n","i","t","y">>,
    <<"p","o","l","y","t","e","c","h","n","i","c">>,
    <<"s","c","h","o","o","l">>,
    <<"n","e","w">>,
    <<"c","i","t","y">>,
    <<"c","l","e","r","m","o","n","t">>,
    <<"e","x","t","e","n","s","i","o","n">>,
    <<"c","a","m","p","u","s">>,
    <<"b","r","a","n","c","h">> }

\* '(' in s and ')' in s
HasParens(s) == Contains(s, <<"(">>) /\ Contains(s, <<")">>)

\* step (b) left out: no following word rejects the prefix
NextWordRejects_never(team_key, s) == FALSE

\* step (b): the word after the prefix names another institution
NextWordRejects(team_key, s) ==
    LET remainder == strip(From(s, Len(team_key)))
    IN  remainder # <<>> /\ FirstWord(remainder) \in InstitutionWords

\* one pass of the for loop body: does this entry become a candidate?
IsCandidate(team_key, s) ==
    /\ PrefixMatch(team_key, s)
    /\ ~ (HasParens(s) /\ ~ Contains(s, team_key))
    /\ ~ NextWordRejects(team_key, s)

\* step (c): keep the longest valid prefix match
Longer(team_key, best_match) ==
    best_match = None \/ Len(team_key) > Len(strip_accents(lower(best_match)))

\* the for loop over valid_processed.items()
RECURSIVE BestPrefix(_, _, _)
BestPrefix(d, s, best_match) ==
    IF d = <<>> THEN best_match
    ELSE BestPrefix(Tail(d), s,
                    IF IsCandidate(d[1].key, s) /\ Longer(d[1].key, best_match)
                    THEN d[1].name ELSE best_match)

\* step 3: the parenthesis guard on the best match
ParenGuard(best_match, s) ==
    IF /\ best_match # None
       /\ HasParens(s)
       /\ lower(best_match) # s
       /\ ~ Contains(s, lower(best_match))
    THEN None ELSE best_match

clean_team_name(name, names) ==
    IF Falsy(name) THEN None
    ELSE LET lower_no_accents == strip_accents(lower(normalize_name(name)))
             d == valid_processed(names)
         IN  IF HasKey(d, lower_no_accents) THEN Lookup(d, lower_no_accents)
             ELSE ParenGuard(BestPrefix(d, lower_no_accents, None), lower_no_accents)

\* clean_team_name of getMCBBscoresn.py: valid_processed.get(lower_no_accents)
clean_team_name_n(name, names) ==
    IF Falsy(name) THEN None
    ELSE LET lower_no_accents == strip_accents(lower(normalize_name_n(name)))
             d == valid_processed(names)
         IN  IF HasKey(d, lower_no_accents) THEN Lookup(d, lower_no_accents) ELSE None

\* the first canonical name that occurs is kept
RECURSIVE BestSubstring_first(_, _, _)
BestSubstring_first(names, s, best_match) ==
    IF names = <<>> THEN best_match
    ELSE BestSubstring_first(Tail(names), s,
            IF Contains(s, strip_accents(lower(names[1]))) /\ best_match = None
            THEN names[1] ELSE best_match)

\* the for loop of getCFBscores.clean_team_name: substring match, longest name
RECURSIVE BestSubstring(_, _, _)
BestSubstring(names, s, best_match) ==
    IF names = <<>> THEN best_match
    ELSE BestSubstring(Tail(names), s,
            IF /\ Contains(s, strip_accents(lower(names[1])))
               /\ (best_match = None \/ Len(names[1]) > Len(best_match))
            THEN names[1] ELSE best_match)

\* clean_team_name of getCFBscores.py
clean_team_name_cfb(name, names) ==
    IF Falsy(name) THEN name
    ELSE LET normalized == normalize_name(name)
             best_match == BestSubstring(names, strip_accents(lower(normalized)), None)
         IN  IF best_match # None THEN best_match ELSE normalized

----------------------------------------------------------------------------
(* Inputs of the resolver runs: canonical names, raw display names.         *)

Miami == <<"M","i","a","m","i">>

Miami_OH == <<"M","i","a","m","i"," ","(","O","H",")">>

Washington == <<"W","a","s","h","i","n","g","t","o","n">>

Washington_State == <<"W","a","s","h","i","n","g","t","o","n"," ","S","t","a","t","e">>

Georgia == <<"G","e","o","r","g","i","a">>

San_Jose_State == <<"S","a","n"," ","J","o","s","e_acute"," ","S","t","a","t","e">>

San_Jose_State_ascii == <<"S","a","n"," ","J","o","s","e"," ","S","t","a","t","e">>

Decomposed_San_Jose == <<"S","a","n"," ","J","o","s","e","comb_acute">>

Miami_OH_RedHawks == Miami_OH \o <<" ","R","e","d","H","a","w","k","s">>

Washington_State_Cougars == Washington_State \o <<" ","C","o","u","g","a","r","s">>

Bulldogs == <<" ","B","u","l","l","d","o","g","s">>

Georgia_Bulldogs == Georgia \o Bulldogs

\* the rows a league file may hold
CanonicalPool == {Miami, Miami_OH, Washington, Washington_State, Georgia,
                  San_Jose_State, San_Jose_State_ascii}

\* largest universe explored
MaxTeams == 2

Universes == {U \in SUBSET CanonicalPool : Cardinality(U) <= MaxTeams}

\* the sequences that enumerate a set once each
Enumerations(U) ==
    {f \in [1..Cardinality(U) -> U] : \A i, j \in 1..Cardinality(U) : f[i] = f[j] => i = j}

\* school part of a display name, as the source may spell it
Schools == {Miami, Washington, Georgia, Fixed_San_Jose, Ascii_San_Jose, Decomposed_San_Jose}

\* what may follow the school: nothing, a parenthetical, a qualifier word, more letters
Qualifiers == {<<>>, <<" ","(","O","H",")">>, <<" ","S","t","a","t","e">>, <<"n","a">>}

Nicknames == {<<>>, Bulldogs}

PlainNames ==
    {sc \o q \o n : sc \in Schools, q \in Qualifiers, n \in Nicknames}
        \cup {<<>>, Miami_OH_RedHawks, Washington_State_Cougars}

\* the rank numbers k of a leading "No. k "
Ranks == {<<"3">>, <<"1","2">>}

\* "No. k " in front of a name
Ranked(k, name) == No_dot \o k \o <<" ">> \o name

\* the name as a source that mis-decodes UTF-8 sends it
Misdecoded(name) == replace(name, Fixed_Jose, Mojibake_Jose)

\* the spellings under which a source may send a plain name
Spellings(name) ==
    {name, Misdecoded(name)} \cup {Ranked(k, name) : k \in Ranks}

Scripts == {"getMCBBscores", "getMCBBscoresn", "getCFBscores"}

\* the resolver of each script
Resolve(s, name, names) ==
    CASE s = "getMCBBscores"  -> clean_team_name(name, names)
      [] s = "getMCBBscoresn" -> clean_team_name_n(name, names)
      [] s = "getCFBscores"   -> clean_team_name_cfb(name, names)

\* the score fetcher's variables while only the resolver is exercised
GamesIdle ==
    /\ pc = "idle"
    /\ url_index = 0
    /\ n_events = 0
    /\ all_game_data = <<>>
    /\ seen_games = {}
    /\ csv_file = Unset
    /\ reported = <<>>

\* no standings file is being synchronised
SyncIdle ==
    /\ store_file = [exists |-> FALSE, header |-> <<>>, rows |-> <<>>]
    /\ store_before = [exists |-> FALSE, header |-> <<>>, rows |-> <<>>]
    /\ sync_pc = "idle"

\* no rating update is running
EloIdle ==
    /\ ratings_file = [header |-> <<>>, rows |-> <<>>]
    /\ ratings_df = <<>>
    /\ scores_df = <<>>
    /\ current_ratings = <<>>
    /\ updated_teams = {}
    /\ game_index = 0
    /\ elo_pc = "idle"
    /\ last_game = <<>>

\* no sequence of runs on one shared file is followed
ShareIdle ==
    /\ shared_file = <<>>
    /\ shared_start = <<>>
    /\ run_log = <<>>

\* no run with external fetches is followed
FetchIdle ==
    /\ fetch_index = 0
    /\ fetch_pc = "idle"
    /\ source_silent = FALSE
    /\ attempts = <<>>
    /\ outcome = <<>>
    /\ league_files = <<>>
    /\ last_response = <<>>

\* the merge's variables while another script runs
MergeIdle ==
    /\ existing_data = <<>>
    /\ scraped_data = <<>>
    /\ merged_data = <<>>
    /\ merged_again = <<>>
    /\ merge_pc = "idle"

\* the resolver's variables while the score fetcher runs
ResolverIdle ==
    /\ full_name = <<>>
    /\ plain_name = <<>>
    /\ cleaned = Unset
    /\ plain_cleaned = Unset
    /\ restarted = FALSE

----------------------------------------------------------------------------
(* The resolver runs: one raw name and its plain form are resolved against  *)
(* one universe, by one script, possibly in two processes.                  *)

ResolverInit ==
    /\ valid_team_names \in Universes
    /\ order \in Enumerations(valid_team_names)
    /\ script \in Scripts
    /\ plain_name \in PlainNames
    /\ full_name \in Spellings(plain_name)
    /\ cleaned = Unset
    /\ plain_cleaned = Unset
    /\ restarted = FALSE
    /\ GamesIdle
    /\ MergeIdle
    /\ SyncIdle
    /\ EloIdle
    /\ FetchIdle
    /\ ShareIdle

\* cleaned_name = clean_team_name(team_display_name, valid_team_names)
ResolveFull ==
    /\ cleaned = Unset
    /\ cleaned' = Resolve(script, full_name, order)
    /\ UNCHANGED <<share_vars, fetch_vars, elo_vars, sync_vars, merge_vars, names_vars, full_name, plain_name, plain_cleaned, restarted, games_vars>>

\* the script is run again: a new process enumerates the same set in its own order
Restart ==
    /\ cleaned # Unset
    /\ plain_cleaned = Unset
    /\ ~ restarted
    /\ restarted' = TRUE
    /\ order' \in Enumerations(valid_team_names)
    /\ UNCHANGED <<share_vars, fetch_vars, elo_vars, sync_vars, merge_vars, valid_team_names, script, full_name, plain_name, cleaned, plain_cleaned,
                   games_vars>>

\* the same call on the plain form of the name
ResolvePlain ==
    /\ cleaned # Unset
    /\ plain_cleaned = Unset
    /\ plain_cleaned' = Resolve(script, plain_name, order)
    /\ UNCHANGED <<share_vars, fetch_vars, elo_vars, sync_vars, merge_vars, names_vars, full_name, plain_name, cleaned, restarted, games_vars>>

ResolverNext == ResolveFull \/ Restart \/ ResolvePlain

SpecResolver == ResolverInit /\ [][ResolverNext]_vars

----------------------------------------------------------------------------
(* Claims about the resolver.                                               *)

\* the accent- and case-folded form under which names are compared
Folded(name) == strip_accents(lower(name))

\* the canonical names whose folded form is a prefix of the folded raw name
PrefixNames(raw, U) == {c \in U : StartsWith(Folded(normalize_name(raw)), Folded(c))}

\* the text of the first parenthetical of a name, parentheses included
RECURSIVE UpToClose(_)
UpToClose(s) ==
    IF s = <<>> THEN <<>>
    ELSE IF s[1] = ")" THEN <<")">> ELSE <<s[1]>> \o UpToClose(Tail(s))

RECURSIVE Parenthetical(_)
Parenthetical(s) ==
    IF s = <<>> THEN <<>>
    ELSE IF s[1] = "(" THEN UpToClose(s) ELSE Parenthetical(Tail(s))

\* C1: the basketball resolvers return a member of the universe or None,
\* never a string outside the universe.
C1_ResultInUniverseOrNone ==
    (script \in {"getMCBBscores", "getMCBBscoresn"} /\ cleaned # Unset)
        => cleaned \in valid_team_names \cup {None}

\* C1 witness: a nickname was stripped and a raw name outside the universe
\* resolved to a member of it.
C1_Witness ==
    /\ script = "getMCBBscores"
    /\ cleaned \in valid_team_names
    /\ full_name \notin valid_team_names

\* C2 as claimed: when several canonical names are prefixes of the raw name the
\* longest is returned; {"Miami", "Miami (OH)"} resolves "Miami (OH) RedHawks"
\* to "Miami (OH)".
C2_LongestPrefixWins ==
    (script = "getMCBBscores" /\ cleaned # Unset)
        => /\ Cardinality(PrefixNames(full_name, valid_team_names)) >= 2
                => /\ cleaned \in PrefixNames(full_name, valid_team_names)
                   /\ \A c \in PrefixNames(full_name, valid_team_names) :
                          Len(Folded(c)) <= Len(Folded(cleaned))
           /\ (valid_team_names = {Miami, Miami_OH} /\ full_name = Miami_OH_RedHawks)
                => cleaned = Miami_OH

\* C3 as claimed: a raw name with a parenthetical qualifier resolves only to a
\* canonical name that holds the same parenthetical, else to None.
C3_ParentheticalMustMatch ==
    (/\ script = "getMCBBscores"
     /\ cleaned # Unset
     /\ cleaned # None
     /\ HasParens(full_name))
        => Contains(cleaned, Parenthetical(full_name))

\* C4: a canonical name that is a prefix of the raw name is not returned when
\* the whitespace-delimited word right after it is an institution word;
\* {"Washington"} gives None for "Washington State Cougars", and
\* {"Washington", "Washington State"} gives "Washington State".
C4_QualifierRejected ==
    (script = "getMCBBscores" /\ cleaned # Unset)
        => /\ \A c \in valid_team_names :
                LET raw == Folded(normalize_name(full_name))
                    key == Folded(c)
                IN  (/\ StartsWith(raw, key)
                     /\ FirstWord(From(raw, Len(key))) \in InstitutionWords)
                        => cleaned # c
           /\ (valid_team_names = {Washington} /\ full_name = Washington_State_Cougars)
                => cleaned = None
           /\ (/\ valid_team_names = {Washington, Washington_State}
               /\ full_name = Washington_State_Cougars)
                => cleaned = Washington_State

\* C4 witness: "Washington State Cougars" was resolved against {"Washington"}.
C4_Witness ==
    /\ script = "getMCBBscores"
    /\ valid_team_names = {Washington}
    /\ full_name = Washington_State_Cougars
    /\ cleaned = None

\* C5 as claimed: a name with a leading "No. k " resolves like the name
\* without it.
C5_RankMarkerIgnored ==
    (/\ script = "getMCBBscores"
     /\ \E k \in Ranks : full_name = Ranked(k, plain_name)
     /\ cleaned # Unset /\ plain_cleaned # Unset /\ ~ restarted)
        => cleaned = plain_cleaned

\* C6 as claimed: the same raw name against the same universe gives the same
\* result, whatever the enumeration order of the universe and whatever calls
\* came before.
C6_Deterministic ==
    (/\ script \in {"getMCBBscores", "getCFBscores"}
     /\ full_name = plain_name
     /\ cleaned # Unset /\ plain_cleaned # Unset)
        => cleaned = plain_cleaned

\* C7: within one process a raw name holding the mis-decoded "Jos" + U+00C3 +
\* U+00A9 resolves like the same name with the correctly encoded e-acute.
C7_MojibakeRepaired ==
    (/\ Contains(full_name, Mojibake_Jose)
     /\ full_name = Misdecoded(plain_name)
     /\ cleaned # Unset /\ plain_cleaned # Unset /\ ~ restarted)
        => cleaned = plain_cleaned

\* C7 witness: a mis-decoded name and its correct form both resolved to the
\* canonical name with the accent.
C7_Witness ==
    /\ Contains(full_name, Mojibake_Jose)
    /\ full_name = Misdecoded(plain_name)
    /\ ~ restarted
    /\ cleaned = San_Jose_State
    /\ plain_cleaned = San_Jose_State

\* the canonical names whose folded form occurs in the folded, normalized raw name
Occurring(raw, U) == {c \in U : Contains(Folded(normalize_name(raw)), Folded(c))}

\* C25: the football resolver returns a canonical name whose folded form
\* occurs in the folded, normalized raw name and than which no occurring
\* canonical name is longer; when none occurs it returns the normalized raw
\* name itself, not a no-match sentinel.
C25_LongestSubstringOrRaw ==
    (script = "getCFBscores" /\ cleaned # Unset) =>
        IF Occurring(full_name, valid_team_names) = {}
        THEN cleaned = normalize_name(full_name)
        ELSE /\ cleaned \in Occurring(full_name, valid_team_names)
             /\ \A c \in Occurring(full_name, valid_team_names) : Len(c) <= Len(cleaned)

\* C25 witness: "No. 3 Washington State Cougars" against {"Washington",
\* "Washington State"}, enumerated with the longer name first, gave
\* "Washington State".
C25_Witness ==
    /\ script = "getCFBscores"
    /\ order = <<Washington_State, Washington>>
    /\ \E k \in Ranks : full_name = Ranked(k, Washington_State_Cougars)
    /\ cleaned = Washington_State

\* C27 as claimed: a canonical name handed to the basketball resolvers as the
\* raw name comes back unchanged, whatever else the universe holds.
C27_CanonicalFixedPoint ==
    (/\ script \in {"getMCBBscores", "getMCBBscoresn"}
     /\ full_name \in valid_team_names
     /\ cleaned # Unset)
        => cleaned = full_name

----------------------------------------------------------------------------
(* The completed-game fetchers of getMCBBscores.py and getCFBscores.py.     *)

\* events walked per run, over all API responses
MaxEvents == 2

\* len(API_URLS): one grouping for basketball, FBS and FCS for football
NumUrls(s) == IF s = "getCFBscores" THEN 2 ELSE 1

\* displayName values of a response; None when the key is missing
DisplayNames == {Georgia_Bulldogs, Miami_OH_RedHawks, None}

\* the rows the league file of a fetcher run may hold
GamePool == {Georgia, Miami_OH}

\* score values of a response: a decimal string, or None when the key is missing
ScoreTexts == {<<"7">>, None}

DigitValue(c) == CHOOSE n \in 0..9 : <<"0","1","2","3","4","5","6","7","8","9">>[n + 1] = c

\* int(text) of a decimal string
RECURSIVE int(_)
int(text) ==
    IF Len(text) = 1 THEN DigitValue(text[1])
    ELSE 10 * int(SubSeq(text, 1, Len(text) - 1)) + DigitValue(text[Len(text)])

\* int(score) if score else 0
ScoreOf(score) == IF Falsy(score) THEN 0 ELSE int(score)

Competitors == [homeAway : {"away", "home"}, displayName : DisplayNames, score : ScoreTexts]

\* the names and scores before the competitors of an event are walked
NoTeams ==
    [away_team_name |-> None, home_team_name |-> None, away_score |-> None, home_score |-> None]

\* normalize_name then clean_team_name, as the fetcher of script s calls them
CleanedName(s, displayName, names) == Resolve(s, normalize_name(displayName), names)

\* the loop `for competitor in competitors`
RECURSIVE WalkCompetitors(_, _, _, _)
WalkCompetitors(competitors, s, names, acc) ==
    IF competitors = <<>> THEN acc
    ELSE LET competitor == competitors[1]
             cleaned_name == CleanedName(s, competitor.displayName, names)
             next == IF competitor.homeAway = "away"
                     THEN [acc EXCEPT !.away_team_name = cleaned_name,
                                      !.away_score = ScoreOf(competitor.score)]
                     ELSE [acc EXCEPT !.home_team_name = cleaned_name,
                                      !.home_score = ScoreOf(competitor.score)]
         IN  WalkCompetitors(Tail(competitors), s, names, next)

\* (away_team_name, home_team_name): the pair in the order of the report
GameId_ordered(away, home) == <<away, home>>

\* tuple(sorted([away_team_name, home_team_name])): the unordered pair
GameId(away, home) == {away, home}

\* `if away_team_name and home_team_name`
BothFound(g) == ~ Falsy(g.away_team_name) /\ ~ Falsy(g.home_team_name)

GamesInit ==
    /\ valid_team_names \in {U \in Universes : U \subseteq GamePool}
    /\ order \in Enumerations(valid_team_names)
    /\ script \in {"getMCBBscores", "getCFBscores"}
    /\ pc = "fetch"
    /\ url_index = 0
    /\ n_events = 0
    /\ all_game_data = <<>>
    /\ seen_games = {}
    /\ csv_file = Unset
    /\ reported = <<>>
    /\ ResolverIdle
    /\ MergeIdle
    /\ SyncIdle
    /\ EloIdle
    /\ FetchIdle
    /\ ShareIdle

\* where the run goes after one API URL is finished
AfterUrl(handled) == IF handled >= NumUrls(script) THEN "save" ELSE "fetch"

\* requests.get raises RequestException: the URL is skipped
FetchFails ==
    /\ pc = "fetch"
    /\ url_index' = url_index + 1
    /\ pc' = AfterUrl(url_index + 1)
    /\ UNCHANGED <<share_vars, fetch_vars, elo_vars, sync_vars, merge_vars, names_vars, resolver_vars, n_events, all_game_data, seen_games, csv_file, reported>>

\* the response arrived: its events are walked
FetchOk ==
    /\ pc = "fetch"
    /\ pc' = "events"
    /\ UNCHANGED <<share_vars, fetch_vars, elo_vars, sync_vars, merge_vars, names_vars, resolver_vars, url_index, n_events, all_game_data,
                   seen_games, csv_file, reported>>

\* one pass of `for event in events` that ends at a `continue`: the event
\* has no competitions, or its state is not 'post'
SkipEvent ==
    /\ pc = "events"
    /\ n_events < MaxEvents
    /\ n_events' = n_events + 1
    /\ UNCHANGED <<share_vars, fetch_vars, elo_vars, sync_vars, merge_vars, names_vars, resolver_vars, pc, url_index, all_game_data, seen_games,
                   csv_file, reported>>

\* one pass of `for event in events` over a completed game
ProcessEvent ==
    /\ pc = "events"
    /\ n_events < MaxEvents
    /\ \E c1, c2 \in Competitors :
         \E g \in {WalkCompetitors(<<c1, c2>>, script, order, NoTeams)} :
            IF BothFound(g) /\ GameId(g.away_team_name, g.home_team_name) \notin seen_games
            THEN /\ seen_games' = seen_games \cup {GameId(g.away_team_name, g.home_team_name)}
                 /\ all_game_data' =
                        Append(all_game_data,
                               <<g.away_team_name, g.home_team_name, g.away_score, g.home_score>>)
                 /\ reported' = Append(reported, <<url_index, g.away_team_name, g.home_team_name>>)
            ELSE /\ UNCHANGED <<seen_games, all_game_data>>
                 /\ reported' = IF BothFound(g)
                                THEN Append(reported, <<url_index, g.away_team_name, g.home_team_name>>)
                                ELSE reported
    /\ n_events' = n_events + 1
    /\ UNCHANGED <<share_vars, fetch_vars, elo_vars, sync_vars, merge_vars, names_vars, resolver_vars, pc, url_index, csv_file>>

\* the events of this response are exhausted
EndOfEvents ==
    /\ pc = "events"
    /\ url_index' = url_index + 1
    /\ pc' = AfterUrl(url_index + 1)
    /\ UNCHANGED <<share_vars, fetch_vars, elo_vars, sync_vars, merge_vars, names_vars, resolver_vars, n_events, all_game_data, seen_games, csv_file, reported>>

\* writer.writerows(all_game_data)
SaveCsv ==
    /\ pc = "save"
    /\ csv_file' = all_game_data
    /\ pc' = "done"
    /\ UNCHANGED <<share_vars, fetch_vars, elo_vars, sync_vars, merge_vars, names_vars, resolver_vars, url_index, n_events, all_game_data, seen_games, reported>>

GamesNext == FetchFails \/ FetchOk \/ SkipEvent \/ ProcessEvent \/ EndOfEvents \/ SaveCsv

SpecGames == GamesInit /\ [][GamesNext]_vars

\* C8 as claimed: every team name written to a completed-game list is a member
\* of the league's universe; a game with an unresolved competitor is dropped.
C8_WrittenNamesInUniverse ==
    csv_file # Unset
        => \A i \in 1..Len(csv_file) :
               csv_file[i][1] \in valid_team_names /\ csv_file[i][2] \in valid_team_names

\* the unordered pair of teams of a row or of a reported game
PairOf(away, home) == {away, home}

\* C20: in the game list, collected and written, no two rows have the same
\* unordered pair of teams, and every completed game the responses held with
\* both teams resolved has exactly one row, whichever grouping reported it and
\* whichever of its teams was away.
C20_OneRowPerPair ==
    /\ \A i, j \in 1..Len(all_game_data) :
           i # j => PairOf(all_game_data[i][1], all_game_data[i][2])
                        # PairOf(all_game_data[j][1], all_game_data[j][2])
    /\ \A k \in 1..Len(reported) :
           Cardinality({i \in 1..Len(all_game_data) :
                           PairOf(all_game_data[i][1], all_game_data[i][2])
                               = PairOf(reported[k][2], reported[k][3])}) = 1
    /\ pc = "done" => csv_file = all_game_data

\* C20 witness: the FBS and the FCS response each held the same game, with
\* home and away exchanged, and the written list has one row.
C20_Witness ==
    /\ pc = "done"
    /\ Len(csv_file) = 1
    /\ \E i, j \in 1..Len(reported) :
           /\ reported[i][1] # reported[j][1]
           /\ reported[i][2] # reported[i][3]
           /\ reported[i][2] = reported[j][3]
           /\ reported[i][3] = reported[j][2]

----------------------------------------------------------------------------
(* The record merge of the standings scripts: merge_data of                 *)
(* NBA_Standings_Scraper.py and NHL_Standings_Scraper.py, the merge loop of *)
(* update_ratings.update_csv_file and the DataFrame update of               *)
(* pfr_scraper.update_nfl_csv.  A table is a sequence of rows, a row maps    *)
(* column names to cell texts.                                              *)

\* rows of the standings table handed to a merge
MaxRows == 2

\* records scraped or fetched for one merge
MaxScraped == 2

UpperChar(c) ==
    IF \E i \in 1..Len(LowerLetters) : c = LowerLetters[i]
    THEN UpperLetters[CHOOSE i \in 1..Len(LowerLetters) : c = LowerLetters[i]]
    ELSE c

\* s.upper()
upper(s) == [i \in 1..Len(s) |-> UpperChar(s[i])]

DigitChar(n) == <<"0","1","2","3","4","5","6","7","8","9">>[n + 1]

\* str(n) of an int
RECURSIVE str(_)
str(n) ==
    IF n < 0 THEN <<"-">> \o str(0 - n)
    ELSE IF n < 10 THEN <<DigitChar(n)>>
    ELSE str(n \div 10) \o <<DigitChar(n % 10)>>

\* d[k] = v on a dict kept as a sequence of items in insertion order
RECURSIVE SetItem(_, _, _)
SetItem(d, k, v) ==
    IF d = <<>> THEN << [key |-> k, value |-> v] >>
    ELSE IF d[1].key = k THEN << [key |-> k, value |-> v] >> \o Tail(d)
    ELSE << d[1] >> \o SetItem(Tail(d), k, v)

\* k in d
HasItem(d, k) == \E i \in 1..Len(d) : d[i].key = k

\* d[k]
GetItem(d, k) == d[CHOOSE i \in 1..Len(d) : d[i].key = k].value

\* row[col] = v on a row dict: the column is added when the row lacks it
SetField(row, col, v) == [c \in DOMAIN row \cup {col} |-> IF c = col THEN v ELSE row[c]]

\* NBA_Standings_Scraper.normalize_team_name
normalize_team_name(team_name) == strip(team_name)

\* the dict comprehension of NBA_Standings_Scraper.merge_data
RECURSIVE scraped_map(_, _)
scraped_map(scraped, d) ==
    IF scraped = <<>> THEN d
    ELSE scraped_map(Tail(scraped),
                     SetItem(d, normalize_team_name(scraped[1].team),
                             [wins |-> scraped[1].wins, losses |-> scraped[1].losses]))

\* a merge that appends the scraped wins to the stored ones
UpdateRow_appending(row, scraped_record) ==
    SetField(SetField(row, "Wins", row.Wins \o scraped_record.wins),
             "Losses", scraped_record.losses)

\* a merge that also blanks the notes of the rows it updates
UpdateRow_blanking_notes(row, scraped_record) ==
    SetField(SetField(SetField(row, "Wins", scraped_record.wins),
                      "Losses", scraped_record.losses), "Notes", <<>>)

\* row['Wins'] = scraped_record['wins']; row['Losses'] = scraped_record['losses']
UpdateRow(row, scraped_record) ==
    SetField(SetField(row, "Wins", scraped_record.wins), "Losses", scraped_record.losses)

\* NBA_Standings_Scraper.merge_data; a scraped record is a non-empty dict, so
\* `if scraped_record:` holds exactly when the key was found
merge_data(scraped, existing) ==
    [i \in 1..Len(existing) |->
        IF HasItem(scraped_map(scraped, <<>>), normalize_team_name(existing[i].Team))
        THEN UpdateRow(existing[i],
                       GetItem(scraped_map(scraped, <<>>), normalize_team_name(existing[i].Team)))
        ELSE existing[i]]

\* NHL_Standings_Scraper.normalize_team_name
normalize_team_name_nhl(team_name) ==
    replace(replace(strip(team_name), <<"*">>, <<>>), <<"+">>, <<>>)

\* the dict comprehension of NHL_Standings_Scraper.merge_data
RECURSIVE scraped_map_nhl(_, _)
scraped_map_nhl(scraped, d) ==
    IF scraped = <<>> THEN d
    ELSE scraped_map_nhl(Tail(scraped),
                         SetItem(d, normalize_team_name_nhl(scraped[1].team), scraped[1].points))

\* NHL_Standings_Scraper.merge_data; the scraped points are texts, never None,
\* so `new_points is not None` holds exactly when the key was found
merge_data_nhl(scraped, existing) ==
    [i \in 1..Len(existing) |->
        IF HasItem(scraped_map_nhl(scraped, <<>>), normalize_team_name_nhl(existing[i].Team))
        THEN SetField(existing[i], "Points",
                      GetItem(scraped_map_nhl(scraped, <<>>),
                              normalize_team_name_nhl(existing[i].Team)))
        ELSE existing[i]]

\* the loop of update_ratings.get_team_records_from_api that fills api_records
RECURSIVE api_records(_, _)
api_records(entries, d) ==
    IF entries = <<>> THEN d
    ELSE api_records(Tail(entries),
                     SetItem(d, lower(entries[1].displayName),
                             [Wins |-> entries[1].wins, Losses |-> entries[1].losses]))

\* team_row.get('Team', '')
TeamOf(team_row) == IF "Team" \in DOMAIN team_row THEN team_row.Team ELSE <<>>

\* the merge loop of update_ratings.update_csv_file; the ints of the API are
\* held as csv.DictWriter writes them, str(value)
update_csv_file(records, current_teams) ==
    [i \in 1..Len(current_teams) |->
        IF HasItem(records, lower(TeamOf(current_teams[i])))
        THEN SetField(SetField(current_teams[i], "Wins",
                               str(GetItem(records, lower(TeamOf(current_teams[i]))).Wins)),
                      "Losses", str(GetItem(records, lower(TeamOf(current_teams[i]))).Losses))
        ELSE current_teams[i]]

New_England_Patriots == <<"N","e","w"," ","E","n","g","l","a","n","d"," ","P","a","t","r","i","o","t","s">>
Buffalo_Bills == <<"B","u","f","f","a","l","o"," ","B","i","l","l","s">>
Miami_Dolphins == <<"M","i","a","m","i"," ","D","o","l","p","h","i","n","s">>

\* pfr_scraper.TEAM_MAP, its first three entries
TEAM_MAP ==
    << [key |-> <<"N","W","E">>, value |-> New_England_Patriots],
       [key |-> <<"B","U","F">>, value |-> Buffalo_Bills],
       [key |-> <<"M","I","A">>, value |-> Miami_Dolphins] >>

\* pd.to_numeric(..., errors='coerce') yields a number, not NaN
IsNumber(text) == text # <<>> /\ \A i \in 1..Len(text) : text[i] \in Digits

\* scraped rows that survive the Team mapping, to_numeric and dropna
Mapped(r) == HasItem(TEAM_MAP, upper(r.PFR_Tm)) /\ IsNumber(r.Wins) /\ IsNumber(r.Losses)

\* update_df of pfr_scraper.update_nfl_csv: Team, Wins, Losses of the kept rows
update_df(scraped) ==
    LET kept == SelectSeq(scraped, Mapped)
    IN  [j \in 1..Len(kept) |->
            [Team |-> GetItem(TEAM_MAP, upper(kept[j].PFR_Tm)),
             Wins |-> int(kept[j].Wins), Losses |-> int(kept[j].Losses)]]

\* an index with a repeated label: DataFrame.update cannot reindex it
DuplicateLabels(df) == \E i, j \in 1..Len(df) : i # j /\ df[i].Team = df[j].Team

\* column.astype(float).astype(int).astype(str) of one cell
AsIntText(cell) == str(int(cell))

\* lines 108-121 of pfr_scraper.update_nfl_csv, when update() does not raise
update_nfl_csv(scraped, local_df) ==
    [i \in 1..Len(local_df) |->
        LET hit == {j \in 1..Len(update_df(scraped)) :
                        update_df(scraped)[j].Team = local_df[i].Team}
            updated == IF hit = {} THEN local_df[i]
                       ELSE SetField(SetField(local_df[i], "Wins",
                                              str(update_df(scraped)[CHOOSE j \in hit : TRUE].Wins)),
                                     "Losses",
                                     str(update_df(scraped)[CHOOSE j \in hit : TRUE].Losses))
        IN  SetField(SetField(updated, "Wins", AsIntText(updated.Wins)),
                     "Losses", AsIntText(updated.Losses))]

----------------------------------------------------------------------------
(* Inputs of the merges.                                                    *)

Lakers == <<"L","a","k","e","r","s">>
Lakers_padded == <<"L","a","k","e","r","s"," ">>
Celtics == <<"C","e","l","t","i","c","s">>
Celtics_starred == <<"C","e","l","t","i","c","s","*">>
Knicks == <<"K","n","i","c","k","s">>

MergeScripts == {"NBA_Standings_Scraper", "NHL_Standings_Scraper", "update_ratings", "pfr_scraper"}

\* Team cells of the standings file
StoreTeams(s) ==
    IF s = "pfr_scraper" THEN {Buffalo_Bills, Miami_Dolphins, Lakers}
    ELSE {Lakers, Lakers_padded, Celtics}

\* the rows a standings file can hold
StoreRows(s) ==
    IF s = "NHL_Standings_Scraper"
    THEN [Team : StoreTeams(s), Elo : {<<"1","5","0","0",".","5">>}, Points : {<<"3">>},
          Division : {<<"W","e","s","t">>}, Notes : {<<"P","l","a","y","o","f","f","s">>}]
    ELSE [Team : StoreTeams(s), Elo : {<<"1","5","0","0",".","5">>}, Wins : {<<"3">>}, Losses : {<<"4">>},
          Division : {<<"W","e","s","t">>}, Notes : {<<"P","l","a","y","o","f","f","s">>}]

\* the records a scrape or an API answer can hold
ScrapedRecords(s) ==
    CASE s = "NBA_Standings_Scraper" ->
             [team : {Lakers, Celtics_starred, Knicks}, wins : {<<"1","0">>, <<"0">>}, losses : {<<"5">>}]
      [] s = "NHL_Standings_Scraper" ->
             [team : {Lakers, Celtics_starred, Knicks}, points : {<<"1","0">>, <<"0">>}]
      [] s = "update_ratings" ->
             [displayName : {Lakers, Celtics, Knicks}, wins : {10, 0}, losses : {5}]
      [] s = "pfr_scraper" ->
             [PFR_Tm : {<<"b","u","f">>, <<"M","I","A">>, <<"T","m">>}, Wins : {<<"1","0">>, <<"W">>}, Losses : {<<"5">>}]

SeqsUpTo(S, n) == UNION {[1..k -> S] : k \in 0..n}

\* the key column of a standings file read by pandas holds each team once
Tables(s) ==
    IF s = "pfr_scraper"
    THEN {t \in SeqsUpTo(StoreRows(s), MaxRows) : ~DuplicateLabels(t)}
    ELSE SeqsUpTo(StoreRows(s), MaxRows)

----------------------------------------------------------------------------
(* The merge runs: one table and one set of records; the merge is applied,  *)
(* then applied again to its own result.  existing_data keeps the rows as   *)
(* they were before the first application.                                  *)

MergeInit ==
    /\ script \in MergeScripts
    /\ valid_team_names = {}
    /\ order = <<>>
    /\ existing_data \in Tables(script)
    /\ scraped_data \in SeqsUpTo(ScrapedRecords(script), MaxScraped)
    /\ merged_data = <<>>
    /\ merged_again = <<>>
    /\ merge_pc = "start"
    /\ ResolverIdle
    /\ GamesIdle
    /\ SyncIdle
    /\ EloIdle
    /\ FetchIdle
    /\ ShareIdle

\* the table the next application receives
MergeInput == IF merge_pc = "start" THEN existing_data ELSE merged_data

\* the next application returned `result`
Returned(result) ==
    IF merge_pc = "start"
    THEN merged_data' = result /\ merge_pc' = "merged" /\ UNCHANGED merged_again
    ELSE merged_again' = result /\ merge_pc' = "again" /\ UNCHANGED merged_data

MergeNBA ==
    /\ script = "NBA_Standings_Scraper"
    /\ merge_pc \in {"start", "merged"}
    /\ Returned(merge_data(scraped_data, MergeInput))
    /\ UNCHANGED <<share_vars, fetch_vars, elo_vars, sync_vars, names_vars, resolver_vars, games_vars, existing_data, scraped_data>>

MergeNHL ==
    /\ script = "NHL_Standings_Scraper"
    /\ merge_pc \in {"start", "merged"}
    /\ Returned(merge_data_nhl(scraped_data, MergeInput))
    /\ UNCHANGED <<share_vars, fetch_vars, elo_vars, sync_vars, names_vars, resolver_vars, games_vars, existing_data, scraped_data>>

UpdateCsvFile ==
    /\ script = "update_ratings"
    /\ merge_pc \in {"start", "merged"}
    /\ Returned(update_csv_file(api_records(scraped_data, <<>>), MergeInput))
    /\ UNCHANGED <<share_vars, fetch_vars, elo_vars, sync_vars, names_vars, resolver_vars, games_vars, existing_data, scraped_data>>

UpdateNflCsv ==
    /\ script = "pfr_scraper"
    /\ merge_pc \in {"start", "merged"}
    /\ ~DuplicateLabels(update_df(scraped_data))
    /\ Returned(update_nfl_csv(scraped_data, MergeInput))
    /\ UNCHANGED <<share_vars, fetch_vars, elo_vars, sync_vars, names_vars, resolver_vars, games_vars, existing_data, scraped_data>>

\* local_df.update raises ValueError on a repeated label; nothing catches it
UpdateNflCsvRaises ==
    /\ script = "pfr_scraper"
    /\ merge_pc \in {"start", "merged"}
    /\ DuplicateLabels(update_df(scraped_data))
    /\ merge_pc' = "crashed"
    /\ UNCHANGED <<share_vars, fetch_vars, elo_vars, sync_vars, names_vars, resolver_vars, games_vars, existing_data, scraped_data,
                   merged_data, merged_again>>

MergeNext == MergeNBA \/ MergeNHL \/ UpdateCsvFile \/ UpdateNflCsv \/ UpdateNflCsvRaises

SpecMerge == MergeInit /\ [][MergeNext]_vars

----------------------------------------------------------------------------
(* Claims about the record merge.                                           *)

\* the fields a script's merge targets
Targeted == IF script = "NHL_Standings_Scraper" THEN {"Points"} ELSE {"Wins", "Losses"}

\* the row's key is a key of the update mapping built from scraped_data
KeyInMapping(row) ==
    CASE script = "NBA_Standings_Scraper" ->
             \E j \in 1..Len(scraped_data) : strip(scraped_data[j].team) = strip(row.Team)
      [] script = "NHL_Standings_Scraper" ->
             \E j \in 1..Len(scraped_data) :
                 normalize_team_name_nhl(scraped_data[j].team) = normalize_team_name_nhl(row.Team)
      [] script = "update_ratings" ->
             \E j \in 1..Len(scraped_data) : lower(scraped_data[j].displayName) = lower(row.Team)
      [] script = "pfr_scraper" ->
             \E j \in 1..Len(scraped_data) :
                 Mapped(scraped_data[j]) /\ GetItem(TEAM_MAP, upper(scraped_data[j].PFR_Tm)) = row.Team

\* C9: the record merge is idempotent: applying the same update mapping to the
\* result of a first application yields exactly the table of the first application.
C9_MergeIdempotent == merge_pc = "again" => merged_again = merged_data

\* a first application that changed a row, followed by a second one
C9_Witness ==
    /\ merge_pc = "again"
    /\ \E i \in 1..Len(existing_data) : merged_data[i] # existing_data[i]

\* C10: a merge changes only the targeted fields (Wins/Losses, or Points) of rows
\* whose key is in the update mapping: a row whose key is absent from the mapping
\* is unchanged in every field, and in matched rows every other field (key,
\* rating, division, notes) keeps its prior value.
C10_OnlyTargetedFieldsOfMatchedRows ==
    merge_pc \in {"merged", "again"} =>
        /\ Len(merged_data) = Len(existing_data)
        /\ \A i \in 1..Len(existing_data) :
               /\ DOMAIN merged_data[i] = DOMAIN existing_data[i]
               /\ \A c \in DOMAIN existing_data[i] \ Targeted :
                      merged_data[i][c] = existing_data[i][c]
               /\ ~KeyInMapping(existing_data[i]) => merged_data[i] = existing_data[i]

\* one merge that changed the wins of a matched row and met an unmatched row
C10_Witness ==
    /\ merge_pc = "merged"
    /\ script \in {"NBA_Standings_Scraper", "pfr_scraper"}
    /\ \E i, j \in 1..Len(existing_data) :
           /\ KeyInMapping(existing_data[i])
           /\ merged_data[i].Wins # existing_data[i].Wins
           /\ ~KeyInMapping(existing_data[j])

----------------------------------------------------------------------------
(* The standings syncs as whole runs on the store file: the script reads    *)
(* the file, merges the scraped records and writes the file back.  A file   *)
(* is its header (the column names in order) and its rows (each a mapping   *)
(* from the header's columns to cell texts, as csv.DictReader yields them). *)

\* no file at the path
Absent == [exists |-> FALSE, header |-> <<>>, rows |-> <<>>]

Range(f) == {f[i] : i \in 1..Len(f)}

\* fieldnames of NBA_Standings_Scraper.write_to_csv
fieldnames_nba == <<"Team", "Elo", "Wins", "Losses", "Division", "Notes">>

\* fieldnames of NHL_Standings_Scraper.write_to_csv
fieldnames_nhl == <<"Team", "Elo", "Points", "Division", "Notes">>

\* csv.DictReader over the file, as read_existing_data returns it: [] when the
\* file is not found
read_existing_data(file) == IF file.exists THEN file.rows ELSE <<>>

\* NFL_Standings_Scraper.merge_data: the scraped team is the key as it stands
RECURSIVE scraped_map_nfl(_, _)
scraped_map_nfl(scraped, d) ==
    IF scraped = <<>> THEN d
    ELSE scraped_map_nfl(Tail(scraped),
                         SetItem(d, scraped[1].team,
                                 [wins |-> scraped[1].wins, losses |-> scraped[1].losses]))

merge_data_nfl(scraped, existing) ==
    [i \in 1..Len(existing) |->
        IF HasItem(scraped_map_nfl(scraped, <<>>), existing[i].Team)
        THEN UpdateRow(existing[i], GetItem(scraped_map_nfl(scraped, <<>>), existing[i].Team))
        ELSE existing[i]]

\* list(row.keys()): the header's columns, then the keys the merge added
KeysOf(header, row) ==
    header \o SelectSeq(<<"Wins", "Losses">>,
                        LAMBDA c : c \in DOMAIN row /\ c \notin Range(header))

\* csv.DictWriter with extrasaction='raise': the number of leading rows that
\* hold no key outside fieldnames; the next row raises ValueError
RowsWritten(fieldnames, data) ==
    LET bad == {i \in 1..Len(data) : DOMAIN data[i] \ Range(fieldnames) # {}}
    IN  IF bad = {} THEN Len(data)
        ELSE (CHOOSE i \in bad : \A j \in bad : i <= j) - 1

\* writerows met a row with a key outside fieldnames
WriterRaises(fieldnames, data) == RowsWritten(fieldnames, data) < Len(data)

\* one written row: a missing key is written as restval, the empty string
DictRow(row, fieldnames) ==
    [c \in Range(fieldnames) |-> IF c \in DOMAIN row THEN row[c] ELSE <<>>]

\* open(filename, 'w'), writeheader(), writerows(data): the file after the
\* with-block is left, by its end or by the exception
Written(fieldnames, data) ==
    [exists |-> TRUE, header |-> fieldnames,
     rows |-> [i \in 1..RowsWritten(fieldnames, data) |-> DictRow(data[i], fieldnames)]]

\* a write that goes ahead with no rows
NothingToWrite_never(data) == FALSE

\* `if not data: return` of write_to_csv
NothingToWrite(data) == Len(data) = 0

\* row['Team'] raises KeyError: the header has no Team column
NoKeyColumn(file) == Len(file.rows) > 0 /\ "Team" \notin Range(file.header)

\* __main__ of NBA_Standings_Scraper.py from the scraped records on; file and
\* pc after the run
sync_nba(file, scraped) ==
    IF Len(scraped) = 0 THEN [file |-> file, pc |-> "done"]
    ELSE IF NoKeyColumn(file) THEN [file |-> file, pc |-> "crashed"]
    ELSE IF NothingToWrite(merge_data(scraped, read_existing_data(file)))
         THEN [file |-> file, pc |-> "done"]
    ELSE [file |-> Written(fieldnames_nba, merge_data(scraped, read_existing_data(file))),
          pc |-> IF WriterRaises(fieldnames_nba, merge_data(scraped, read_existing_data(file)))
                 THEN "crashed" ELSE "done"]

\* __main__ of NHL_Standings_Scraper.py from the scraped records on
sync_nhl(file, scraped) ==
    IF Len(scraped) = 0 THEN [file |-> file, pc |-> "done"]
    ELSE IF NoKeyColumn(file) THEN [file |-> file, pc |-> "crashed"]
    ELSE IF NothingToWrite(merge_data_nhl(scraped, read_existing_data(file)))
         THEN [file |-> file, pc |-> "done"]
    ELSE [file |-> Written(fieldnames_nhl, merge_data_nhl(scraped, read_existing_data(file))),
          pc |-> IF WriterRaises(fieldnames_nhl, merge_data_nhl(scraped, read_existing_data(file)))
                 THEN "crashed" ELSE "done"]

\* __main__ of NFL_Standings_Scraper.py from the scraped records on; the
\* fieldnames are the keys of the first merged row
sync_nfl(file, scraped) ==
    IF Len(scraped) = 0 \/ Len(read_existing_data(file)) = 0 THEN [file |-> file, pc |-> "done"]
    ELSE IF NoKeyColumn(file) THEN [file |-> file, pc |-> "crashed"]
    ELSE LET merged == merge_data_nfl(scraped, read_existing_data(file))
             fieldnames == KeysOf(file.header, merged[1])
         IN  [file |-> Written(fieldnames, merged),
              pc |-> IF WriterRaises(fieldnames, merged) THEN "crashed" ELSE "done"]

\* update_ratings.py: `if records:` of __main__, then update_csv_file; every
\* exception of the write is caught
sync_update_ratings(file, entries) ==
    IF Len(api_records(entries, <<>>)) = 0 THEN [file |-> file, pc |-> "done"]
    ELSE IF ~ file.exists \/ Len(file.header) = 0 THEN [file |-> file, pc |-> "done"]
    ELSE [file |-> Written(file.header, update_csv_file(api_records(entries, <<>>), file.rows)),
          pc |-> "done"]

\* the scraped rows espn_scraper keeps: the team is in the local file, and
\* Wins and Losses survive to_numeric and dropna
espn_update_df(file, scraped) ==
    SelectSeq(scraped, LAMBDA r : /\ \E i \in 1..Len(file.rows) : file.rows[i].Team = r.Team
                                   /\ IsNumber(r.Wins) /\ IsNumber(r.Losses))

\* local_df.set_index('Team') ... reset_index(): Team becomes the first column
TeamFirst(header) == <<"Team">> \o SelectSeq(header, LAMBDA c : c # "Team")

\* lines 123-129 of espn_scraper.update_nfl_csv
espn_rows(file, scraped) ==
    [i \in 1..Len(file.rows) |->
        LET hit == {j \in 1..Len(espn_update_df(file, scraped)) :
                        espn_update_df(file, scraped)[j].Team = file.rows[i].Team}
            updated == IF hit = {} THEN file.rows[i]
                       ELSE SetField(SetField(file.rows[i], "Wins",
                              str(int(espn_update_df(file, scraped)[CHOOSE j \in hit : TRUE].Wins))),
                              "Losses",
                              str(int(espn_update_df(file, scraped)[CHOOSE j \in hit : TRUE].Losses)))
        IN  SetField(SetField(updated, "Wins", AsIntText(updated.Wins)),
                     "Losses", AsIntText(updated.Losses))]

\* espn_scraper.py: __main__ and update_nfl_csv.  Without the file
\* local_teams is a list and local_teams.any() raises; without a Team column
\* local_df['Team'] raises; a team scraped twice cannot be aligned by .loc
sync_espn(file, scraped) ==
    IF ~ file.exists \/ "Team" \notin Range(file.header) THEN [file |-> file, pc |-> "crashed"]
    ELSE IF Len(espn_update_df(file, scraped)) = 0 THEN [file |-> file, pc |-> "done"]
    ELSE IF DuplicateLabels(espn_update_df(file, scraped)) THEN [file |-> file, pc |-> "crashed"]
    ELSE [file |-> [exists |-> TRUE, header |-> TeamFirst(file.header),
                    rows |-> espn_rows(file, scraped)],
          pc |-> "done"]

----------------------------------------------------------------------------
(* Inputs of the syncs.                                                     *)

SyncScripts == {"NBA_Standings_Scraper", "NHL_Standings_Scraper", "NFL_Standings_Scraper",
                "update_ratings", "espn_scraper"}

\* the header layouts a standings file can have: the NBA/NFL layout, the same
\* columns in another order, the NHL layout, and one without the Team column
Headers ==
    { <<"Team", "Elo", "Wins", "Losses", "Division", "Notes">>,
      <<"Team", "Wins", "Losses", "Elo", "Division", "Notes">>,
      <<"Team", "Elo", "Points", "Division", "Notes">>,
      <<"Name", "Elo", "Wins", "Losses", "Division", "Notes">> }

\* espn_scraper assigns to the Wins and Losses columns through .loc, whose
\* outcome on missing columns differs between pandas releases: its files
\* have both columns
HeadersOf(s) ==
    IF s = "espn_scraper" THEN {h \in Headers : {"Wins", "Losses"} \subseteq Range(h)}
    ELSE Headers

\* the cell of a row under one column
CellOf(col, team) ==
    CASE col \in {"Team", "Name"} -> team
      [] col = "Elo" -> <<"1","5","0","0",".","5">>
      [] col \in {"Wins", "Points"} -> <<"3">>
      [] col = "Losses" -> <<"4">>
      [] col = "Division" -> <<"W","e","s","t">>
      [] col = "Notes" -> <<"P","l","a","y","o","f","f","s">>

\* the store files a sync can find
StoreFiles(s) ==
    {Absent} \cup
    { [exists |-> TRUE, header |-> h,
       rows |-> [i \in 1..Len(t) |-> [c \in Range(h) |-> CellOf(c, t[i])]]] :
      h \in HeadersOf(s), t \in SeqsUpTo({Lakers, Celtics}, MaxRows) }

\* the text of a wins or losses cell as scrape_nba_standings keeps it:
\* text.strip().replace('\u2014', '0'); "em_dash" stands for U+2014
scraped_cell(text) == replace(strip(text), <<"em_dash">>, <<"0">>)

\* texts a wins cell of the scraped page can hold
RawCells == {<<" ","1","0">>, <<"em_dash">>, <<"0","5">>}

\* the records a sync receives
SyncRecords(s) ==
    CASE s = "NBA_Standings_Scraper" ->
             [team : {Lakers, Celtics_starred, Knicks},
              wins : {scraped_cell(c) : c \in RawCells}, losses : {<<"5">>}]
      [] s = "NFL_Standings_Scraper" ->
             [team : {Lakers, Celtics, Knicks}, wins : {<<"1","0">>}, losses : {<<"5">>}]
      [] s = "espn_scraper" ->
             [Team : {Lakers, Celtics, Knicks}, Wins : {<<"1","0">>, <<"W">>}, Losses : {<<"5">>}]
      [] OTHER -> ScrapedRecords(s)

----------------------------------------------------------------------------
(* One sync run per behaviour.                                              *)

SyncInit ==
    /\ script \in SyncScripts
    /\ valid_team_names = {}
    /\ order = <<>>
    /\ store_file \in StoreFiles(script)
    /\ store_before = store_file
    /\ sync_pc = "start"
    /\ scraped_data \in SeqsUpTo(SyncRecords(script), MaxScraped)
    /\ existing_data = <<>>
    /\ merged_data = <<>>
    /\ merged_again = <<>>
    /\ merge_pc = "idle"
    /\ ResolverIdle
    /\ GamesIdle
    /\ EloIdle
    /\ FetchIdle
    /\ ShareIdle

\* the run ended with `result`
Ran(result) ==
    /\ store_file' = result.file
    /\ sync_pc' = result.pc
    /\ UNCHANGED <<share_vars, fetch_vars, elo_vars, store_before, names_vars, resolver_vars, games_vars, merge_vars>>

SyncNBA ==
    /\ script = "NBA_Standings_Scraper" /\ sync_pc = "start"
    /\ Ran(sync_nba(store_file, scraped_data))

SyncNHL ==
    /\ script = "NHL_Standings_Scraper" /\ sync_pc = "start"
    /\ Ran(sync_nhl(store_file, scraped_data))

SyncNFL ==
    /\ script = "NFL_Standings_Scraper" /\ sync_pc = "start"
    /\ Ran(sync_nfl(store_file, scraped_data))

SyncUpdateRatings ==
    /\ script = "update_ratings" /\ sync_pc = "start"
    /\ Ran(sync_update_ratings(store_file, scraped_data))

SyncESPN ==
    /\ script = "espn_scraper" /\ sync_pc = "start"
    /\ Ran(sync_espn(store_file, scraped_data))

SyncNext == SyncNBA \/ SyncNHL \/ SyncNFL \/ SyncUpdateRatings \/ SyncESPN

SpecSync == SyncInit /\ [][SyncNext]_vars

----------------------------------------------------------------------------
(* Claims about the syncs.                                                  *)

\* the Team cells of a file's rows, in order
TeamKeys(file) == [i \in 1..Len(file.rows) |-> file.rows[i].Team]

\* C11 as claimed: a merge (NFL_Standings_Scraper, update_ratings,
\* espn_scraper) never creates, deletes or reorders rows: the team keys of the
\* table after the run are the team keys of the table before it, in the same
\* order, scraped teams that are not in the table included.
C11_RowsKept ==
    (/\ script \in {"NFL_Standings_Scraper", "update_ratings", "espn_scraper"}
     /\ sync_pc \in {"done", "crashed"}
     /\ store_before.exists
     /\ "Team" \in Range(store_before.header))
        => /\ store_file.exists
           /\ "Team" \in Range(store_file.header)
           /\ TeamKeys(store_file) = TeamKeys(store_before)

\* C12 as claimed: the table a standings sync writes back has the column set
\* of the table it read, in the same order, whatever columns the file has.
C12_ColumnsKept ==
    (/\ script \in {"NBA_Standings_Scraper", "NHL_Standings_Scraper", "update_ratings"}
     /\ sync_pc \in {"done", "crashed"}
     /\ store_before.exists)
        => store_file.header = store_before.header

\* C13: when the store file does not exist as a standings sync runs, no file
\* is written: neither an empty or header-only table nor the scraped rows.
C13_NoFileNoWrite ==
    (sync_pc \in {"done", "crashed"} /\ ~ store_before.exists) => ~ store_file.exists

\* a sync that had records to merge ran to its end without a store file
C13_Witness ==
    /\ script \in {"NBA_Standings_Scraper", "NFL_Standings_Scraper", "update_ratings"}
    /\ sync_pc = "done"
    /\ Len(scraped_data) > 0
    /\ ~ store_before.exists
    /\ ~ store_file.exists

\* the header lacks the key column or a targeted column, or (for the fixed
\* fieldnames of NBA_Standings_Scraper) has a column the writer does not expect
MalformedHeader(file) ==
    /\ file.exists
    /\ \/ {"Team", "Wins", "Losses"} \ Range(file.header) # {}
       \/ script = "NBA_Standings_Scraper" /\ Range(file.header) \ Range(fieldnames_nba) # {}

\* C14 as claimed: with a malformed header the merge does not proceed: the
\* file after the run equals the file before it, never a truncated or partial
\* table.
C14_MalformedHeaderLeavesFile ==
    (/\ script \in {"NBA_Standings_Scraper", "update_ratings"}
     /\ sync_pc \in {"done", "crashed"}
     /\ MalformedHeader(store_before))
        => store_file = store_before

\* a non-negative integer in decimal digits without leading zeros
IsDecimal(text) == IsNumber(text) /\ (Len(text) = 1 \/ text[1] # "0")

\* C15 as claimed: after a merge every targeted field (Wins, Losses) of every
\* updated row holds a non-negative integer as a decimal string without
\* leading zeros, whatever text or value the source supplied.
C15_TargetedFieldsDecimal ==
    (/\ script \in {"NBA_Standings_Scraper", "update_ratings"}
     /\ sync_pc = "done"
     /\ store_file.exists
     /\ {"Team", "Wins", "Losses"} \subseteq Range(store_file.header))
        => \A i \in 1..Len(store_file.rows) :
               KeyInMapping(store_file.rows[i])
                   => /\ IsDecimal(store_file.rows[i].Wins)
                      /\ IsDecimal(store_file.rows[i].Losses)


----------------------------------------------------------------------------
(* The rating update of elo_updater_nba.py.                                 *)
(*                                                                          *)
(* A Python float is a fixed-point number here: the integer n stands for    *)
(* n / Scale.  Sums and differences are exact; products, quotients and      *)
(* powers are rounded down to the grid.  Scores are integers.               *)

\* one unit of the float grid
Scale == 10000

\* a * b of two floats; b stays below 20 so that no step leaves 32 bits
Mul(a, b) == (a \div Scale) * b + ((a % Scale) * b) \div Scale

\* a / b of two floats, b > 0
Div(a, b) == (a \div b) * Scale + ((a % b) * Scale) \div b

\* the float of an int
float(n) == n * Scale

\* 1 if x > 0 else -1 if x < 0 else 0
sign(x) == IF x > 0 THEN 1 ELSE IF x < 0 THEN -1 ELSE 0

abs(x) == IF x < 0 THEN 0 - x ELSE x

\* math.exp(y) for y >= 0, by its power series: the sum of term, term*y/k, ...
RECURSIVE ExpSeries(_, _, _)
ExpSeries(y, term, k) ==
    IF term = 0 THEN 0 ELSE term + ExpSeries(y, Mul(term, y) \div k, k + 1)

exp(y) == IF y >= 0 THEN ExpSeries(y, Scale, 1) ELSE Div(Scale, ExpSeries(0 - y, Scale, 1))

\* atanh(z) for 0 <= z <= 1/3, by its series z + z^3/3 + z^5/5 + ...
RECURSIVE AtanhSeries(_, _, _)
AtanhSeries(power, z2, n) ==
    IF power = 0 THEN 0 ELSE power \div n + AtanhSeries(Mul(power, z2), z2, n + 2)

\* math.log(v) for 1 <= v <= 2
LogUnit(v) ==
    LET z == Div(v - Scale, v + Scale) IN 2 * AtanhSeries(z, Mul(z, z), 1)

\* math.log(v) for v > 0
RECURSIVE log(_)
log(v) ==
    IF v >= 2 * Scale THEN log(v \div 2) + LogUnit(2 * Scale)
    ELSE IF v < Scale THEN log(2 * v) - LogUnit(2 * Scale)
    ELSE LogUnit(v)

\* base ** exponent with 0 ** 0 = 0
pow_zero_base_first(base, exponent) ==
    IF base = 0 THEN 0
    ELSE IF exponent = 0 THEN Scale
    ELSE exp(Mul(log(base), exponent))

\* base ** exponent of a float base >= 0: anything ** 0.0 is 1.0, also 0.0 ** 0.0
pow(base, exponent) ==
    IF exponent = 0 THEN Scale
    ELSE IF base = 0 THEN 0
    ELSE exp(Mul(log(base), exponent))

\* ex = 1 / (1 + 10 ** ((AElo - HElo)/400))
ex(AElo, HElo) == Div(Scale, Scale + pow(float(10), (AElo - HElo) \div 400))

\* act = abs((ascore - hscore) + 1) ** 0.42 * sign(ascore - hscore)
act(ascore, hscore) ==
    pow(float(abs((ascore - hscore) + 1)), (42 * Scale) \div 100) * sign(ascore - hscore)

\* abs(HElo - AElo) ** (sign(HElo - AElo) / 1000)
factor(AElo, HElo) == pow(abs(HElo - AElo), (sign(HElo - AElo) * Scale) \div 1000)

\* AElo_new = (AElo + 4 * (act / (ex + 0.1))) * factor
AElo_new(AElo, HElo, ascore, hscore) ==
    Mul(AElo + 4 * Div(act(ascore, hscore), ex(AElo, HElo) + Scale \div 10), factor(AElo, HElo))

\* HElo + (AElo_new - AElo): the home team moves with the away team
HElo_new_same_way(AElo, HElo, away_new) == HElo + (away_new - AElo)

\* HElo: the home team keeps its rating
HElo_new_unchanged(AElo, HElo, away_new) == HElo

\* HElo_new = HElo - (AElo_new - AElo)
HElo_new(AElo, HElo, away_new) == HElo - (away_new - AElo)

calculate_new_elo(AElo, HElo, ascore, hscore) ==
    LET away_new == AElo_new(AElo, HElo, ascore, hscore)
    IN  << away_new, HElo_new(AElo, HElo, away_new) >>


----------------------------------------------------------------------------
(* process_games: the rating table and the game rows are read, every game   *)
(* row is applied to the dict of ratings or skipped, the table is written.  *)

\* the most game rows in one scores file
MaxGames == 2

Sonics == <<"S","o","n","i","c","s">>

\* a cell of a score column as iterrows hands it over: an int, a text that
\* is no number, an empty cell (NaN), or an infinite float
IntCell(n) == [kind |-> "int", value |-> n]
TextCell == [kind |-> "str", value |-> 0]
NaNCell == [kind |-> "nan", value |-> 0]
InfCell == [kind |-> "inf", value |-> 0]

\* what int(cell) raises
int_raises(cell) ==
    CASE cell.kind = "int" -> "no"
      [] cell.kind = "inf" -> "OverflowError"
      [] OTHER -> "ValueError"

\* lines 81-82: int(row['AwayScore']) is evaluated first
scores_raise(row) ==
    IF int_raises(row.AwayScore) # "no" THEN int_raises(row.AwayScore)
    ELSE int_raises(row.HomeScore)

\* ratings_df.set_index('Team')['Rating'].to_dict()
RECURSIVE to_dict(_)
to_dict(rows) ==
    IF rows = <<>> THEN <<>>
    ELSE SetItem(to_dict(SubSeq(rows, 1, Len(rows) - 1)), rows[Len(rows)].Team, rows[Len(rows)].Rating)

\* both ratings set, every other team reset to the starting rating
set_ratings_resetting(d, away_team, home_team, away_new, home_new) ==
    SetItem(SetItem([k \in 1..Len(d) |-> [key |-> d[k].key, value |-> float(1500)]],
                    away_team, away_new), home_team, home_new)

\* only the away team's new rating is stored
set_ratings_away_only(d, away_team, home_team, away_new, home_new) ==
    SetItem(d, away_team, away_new)

\* lines 99-100
set_ratings(d, away_team, home_team, away_new, home_new) ==
    SetItem(SetItem(d, away_team, away_new), home_team, home_new)

\* lines 107-114: the frame that is written
output_df(rows, d, updated) ==
    [k \in 1..Len(rows) |->
        SetField(SetField(rows[k], "Rating", GetItem(d, rows[k].Team)),
                 "RatingUpdated", rows[k].Team \in updated)]

RatingRow(team, rating) == [Team |-> team, Rating |-> float(rating), Division |-> <<"E","a","s","t">>]

EloRow(team, rating) == [Team |-> team, Elo |-> float(rating), Division |-> <<"E","a","s","t">>]

\* rating tables: the key column holds each team once
RatingFiles ==
    { [header |-> <<"Team", "Rating", "Division">>,
       rows |-> << RatingRow(Lakers, 1500), RatingRow(Celtics, 1500), RatingRow(Knicks, 1600) >>],
      [header |-> <<"Team", "Rating", "Division">>,
       rows |-> << RatingRow(Celtics, 1600), RatingRow(Knicks, 1450), RatingRow(Lakers, 1500) >>],
      [header |-> <<"Team", "Elo", "Division">>,
       rows |-> << EloRow(Lakers, 1500), EloRow(Celtics, 1500) >>] }

\* away and home team of a game row; the Sonics are in no rating table
TeamPairs ==
    { <<Lakers, Celtics>>, <<Celtics, Lakers>>, <<Knicks, Lakers>>, <<Sonics, Celtics>>, <<Lakers, Sonics>> }

\* away and home score cell of a game row
ScorePairs ==
    { <<IntCell(101), IntCell(100)>>, <<IntCell(100), IntCell(101)>>, <<IntCell(100), IntCell(100)>>,
      <<TextCell, IntCell(100)>>, <<IntCell(100), NaNCell>>, <<IntCell(100), InfCell>> }

GameRows ==
    { [AwayTeam |-> t[1], HomeTeam |-> t[2], AwayScore |-> c[1], HomeScore |-> c[2]] :
        t \in TeamPairs, c \in ScorePairs }

EloInit ==
    /\ script = "elo_updater_nba"
    /\ valid_team_names = {}
    /\ order = <<>>
    /\ ratings_file \in RatingFiles
    /\ scores_df \in SeqsUpTo(GameRows, MaxGames)
    /\ ratings_df = <<>>
    /\ current_ratings = <<>>
    /\ updated_teams = {}
    /\ game_index = 0
    /\ elo_pc = "load"
    /\ last_game = <<>>
    /\ ResolverIdle
    /\ GamesIdle
    /\ MergeIdle
    /\ SyncIdle
    /\ FetchIdle
    /\ ShareIdle

EloOthers == <<names_vars, resolver_vars, games_vars, merge_vars, sync_vars, fetch_vars, share_vars>>

\* lines 49-58
LoadRatings ==
    /\ elo_pc = "load"
    /\ \E k \in 1..Len(ratings_file.header) : ratings_file.header[k] = "Rating"
    /\ ratings_df' = ratings_file.rows
    /\ current_ratings' = to_dict(ratings_file.rows)
    /\ game_index' = 1
    /\ elo_pc' = "loop"
    /\ UNCHANGED <<EloOthers, ratings_file, scores_df, updated_teams, last_game>>

\* lines 63-65: the table has no Rating column
LoadFails ==
    /\ elo_pc = "load"
    /\ \A k \in 1..Len(ratings_file.header) : ratings_file.header[k] # "Rating"
    /\ elo_pc' = "returned"
    /\ UNCHANGED <<EloOthers, ratings_file, ratings_df, scores_df, current_ratings, updated_teams, game_index,
                   last_game>>

AtGame == elo_pc = "loop" /\ game_index <= Len(scores_df)

\* lines 83-85
SkipBadScore ==
    /\ AtGame
    /\ scores_raise(scores_df[game_index]) = "ValueError"
    /\ game_index' = game_index + 1
    /\ UNCHANGED <<EloOthers, ratings_file, ratings_df, scores_df, current_ratings, updated_teams, elo_pc,
                   last_game>>

\* lines 81-83: int() of an infinite float raises OverflowError, which no
\* handler catches
CrashOnScore ==
    /\ AtGame
    /\ scores_raise(scores_df[game_index]) = "OverflowError"
    /\ elo_pc' = "crashed"
    /\ UNCHANGED <<EloOthers, ratings_file, ratings_df, scores_df, current_ratings, updated_teams, game_index,
                   last_game>>

\* lines 88-93
SkipUnknownTeam ==
    /\ AtGame
    /\ scores_raise(scores_df[game_index]) = "no"
    /\ \/ ~HasItem(current_ratings, scores_df[game_index].AwayTeam)
       \/ ~HasItem(current_ratings, scores_df[game_index].HomeTeam)
    /\ game_index' = game_index + 1
    /\ UNCHANGED <<EloOthers, ratings_file, ratings_df, scores_df, current_ratings, updated_teams, elo_pc,
                   last_game>>

\* lines 95-102
UpdateGame ==
    /\ AtGame
    /\ scores_raise(scores_df[game_index]) = "no"
    /\ HasItem(current_ratings, scores_df[game_index].AwayTeam)
    /\ HasItem(current_ratings, scores_df[game_index].HomeTeam)
    /\ LET row == scores_df[game_index]
           AElo == GetItem(current_ratings, row.AwayTeam)
           HElo == GetItem(current_ratings, row.HomeTeam)
       IN  \E new \in {calculate_new_elo(AElo, HElo, row.AwayScore.value, row.HomeScore.value)} :
              /\ current_ratings' = set_ratings(current_ratings, row.AwayTeam, row.HomeTeam, new[1], new[2])
              /\ last_game' = << [AElo |-> AElo, HElo |-> HElo, ascore |-> row.AwayScore.value,
                                  hscore |-> row.HomeScore.value, AElo_new |-> new[1],
                                  HElo_new |-> new[2]] >>
              /\ updated_teams' = updated_teams \cup {row.AwayTeam, row.HomeTeam}
    /\ game_index' = game_index + 1
    /\ UNCHANGED <<EloOthers, ratings_file, ratings_df, scores_df, elo_pc>>

\* lines 107-117
SaveRatings ==
    /\ elo_pc = "loop"
    /\ game_index > Len(scores_df)
    /\ ratings_file' = [header |-> TeamFirst(ratings_file.header) \o <<"RatingUpdated">>,
                        rows |-> output_df(ratings_df, current_ratings, updated_teams)]
    /\ elo_pc' = "saved"
    /\ UNCHANGED <<EloOthers, ratings_df, scores_df, current_ratings, updated_teams, game_index, last_game>>

EloNext ==
    LoadRatings \/ LoadFails \/ SkipBadScore \/ CrashOnScore \/ SkipUnknownTeam \/ UpdateGame \/ SaveRatings

SpecElo == EloInit /\ [][EloNext]_vars

----------------------------------------------------------------------------
(* Claims about the rating update.                                          *)

\* C16: for the prior ratings A, H and the scores of every game that
\* calculate_new_elo was called with, the returned pair (A', H') satisfies
\* H' - H = -(A' - A): what the away team gains, the home team loses.
C16_ZeroSum ==
    \A k \in 1..Len(last_game) :
        last_game[k].HElo_new - last_game[k].HElo = 0 - (last_game[k].AElo_new - last_game[k].AElo)

\* a game with a winner was rated and moved the away team's rating
C16_Witness ==
    \E k \in 1..Len(last_game) :
        /\ last_game[k].ascore # last_game[k].hscore
        /\ last_game[k].AElo # last_game[k].HElo
        /\ last_game[k].AElo_new # last_game[k].AElo

\* C17: when the two prior ratings of a rated game are equal, the factor
\* |H - A| ^ (sign(H - A)/1000) is exactly 1, and the away team's new rating is
\* A + 4 * margin_signed / (expected_away + 0.1).
C17_EqualRatingsFactorOne ==
    \A k \in 1..Len(last_game) :
        last_game[k].HElo = last_game[k].AElo =>
            /\ factor(last_game[k].AElo, last_game[k].HElo) = float(1)
            /\ last_game[k].AElo_new =
                   last_game[k].AElo
                   + 4 * Div(act(last_game[k].ascore, last_game[k].hscore),
                             ex(last_game[k].AElo, last_game[k].HElo) + Scale \div 10)

\* a game between two equally rated teams was rated and had a winner
C17_Witness ==
    \E k \in 1..Len(last_game) :
        /\ last_game[k].HElo = last_game[k].AElo
        /\ last_game[k].ascore > last_game[k].hscore
        /\ last_game[k].AElo_new > last_game[k].AElo

\* the game row names a team without a rating, or a score cell is no valid number
Flawed(row) ==
    \/ ~HasItem(current_ratings, row.AwayTeam)
    \/ ~HasItem(current_ratings, row.HomeTeam)
    \/ row.AwayScore.kind # "int"
    \/ row.HomeScore.kind # "int"

\* C18 as claimed: a game row that names a team absent from the rating
\* table, or whose score is not a valid number, is skipped as a whole: the
\* step that handles it changes no rating, and the loop goes on to the next row.
C18_FlawedGameSkipped ==
    [][(AtGame /\ Flawed(scores_df[game_index])) =>
          /\ current_ratings' = current_ratings
          /\ updated_teams' = updated_teams
          /\ elo_pc' = "loop"
          /\ game_index' = game_index + 1]_vars

\* the teams of the game rows that were rated so far
RatedTeams ==
    UNION { {scores_df[j].AwayTeam, scores_df[j].HomeTeam} :
              j \in {j \in 1..Len(scores_df) : j < game_index /\ ~Flawed(scores_df[j])} }

\* C19: after process_games has handled its game rows, every team of the
\* rating table that appears in no rated game has exactly its prior rating, in
\* the dict and in the written table.
C19_UnplayedTeamsKeepRating ==
    /\ elo_pc \in {"loop", "saved", "crashed"} =>
          \A k \in 1..Len(ratings_df) :
              ratings_df[k].Team \notin RatedTeams =>
                  GetItem(current_ratings, ratings_df[k].Team) = ratings_df[k].Rating
    /\ elo_pc = "saved" =>
          /\ Len(ratings_file.rows) = Len(ratings_df)
          /\ \A k \in 1..Len(ratings_df) :
                 ratings_df[k].Team \notin RatedTeams =>
                     /\ ratings_file.rows[k].Team = ratings_df[k].Team
                     /\ ratings_file.rows[k].Rating = ratings_df[k].Rating

\* a table was written in which one team's rating moved and another team,
\* named only in a skipped game or in none, kept its rating
C19_Witness ==
    /\ elo_pc = "saved"
    /\ \E k \in 1..Len(ratings_df) : ratings_file.rows[k].Rating # ratings_df[k].Rating
    /\ \E k \in 1..Len(ratings_df) :
           /\ ratings_df[k].Team \notin RatedTeams
           /\ ratings_file.rows[k].Rating = ratings_df[k].Rating
    /\ \E j \in 1..Len(scores_df) : Flawed(scores_df[j])

\* one game row applied to a dict of ratings, as lines 79-100 apply it
Applied(d, row) ==
    IF Flawed(row) THEN d
    ELSE LET new == calculate_new_elo(GetItem(d, row.AwayTeam), GetItem(d, row.HomeTeam),
                                      row.AwayScore.value, row.HomeScore.value)
         IN  SetItem(SetItem(d, row.AwayTeam, new[1]), row.HomeTeam, new[2])

\* the game rows applied one after the other, first row first
RECURSIVE Replay(_, _)
Replay(rows, d) == IF rows = <<>> THEN d ELSE Replay(Tail(rows), Applied(d, rows[1]))

\* C26: the ratings process_games holds after k game rows are the prior
\* table with those k rows applied in file order, each to the ratings the rows
\* before it left; and every rated game was computed from the rating its teams
\* had at that moment.
C26_GamesAppliedInOrder ==
    elo_pc \in {"loop", "saved", "crashed"} =>
        /\ current_ratings = Replay(SubSeq(scores_df, 1, game_index - 1), to_dict(ratings_df))
        /\ elo_pc = "saved" =>
              \A k \in 1..Len(ratings_df) :
                  ratings_file.rows[k].Rating
                      = GetItem(Replay(scores_df, to_dict(ratings_df)), ratings_df[k].Team)

\* two games of one team were rated, and the same two rows in the other
\* order would have given other ratings
C26_Witness ==
    /\ elo_pc = "saved"
    /\ Len(scores_df) = 2
    /\ ~Flawed(scores_df[1]) /\ ~Flawed(scores_df[2])
    /\ {scores_df[1].AwayTeam, scores_df[1].HomeTeam}
           \cap {scores_df[2].AwayTeam, scores_df[2].HomeTeam} # {}
    /\ Replay(<<scores_df[2], scores_df[1]>>, to_dict(ratings_df)) # current_ratings

\* the sum of the Rating column
RECURSIVE SumRatings(_)
SumRatings(rows) == IF rows = <<>> THEN 0 ELSE rows[1].Rating + SumRatings(Tail(rows))

\* the sum of the values of the dict
RECURSIVE SumValues(_)
SumValues(d) == IF d = <<>> THEN 0 ELSE d[1].value + SumValues(Tail(d))

\* C28: whatever game rows were rated or skipped, the ratings of all teams
\* of the table add up to the sum of the prior ratings, in the dict during the
\* run and in the written table.
C28_RatingSumKept ==
    /\ elo_pc \in {"loop", "saved", "crashed"} => SumValues(current_ratings) = SumRatings(ratings_df)
    /\ elo_pc = "saved" => SumRatings(ratings_file.rows) = SumRatings(ratings_df)

\* a table was written after a game moved two ratings and another row was skipped
C28_Witness ==
    /\ elo_pc = "saved"
    /\ \E k \in 1..Len(ratings_df) : ratings_file.rows[k].Rating # ratings_df[k].Rating
    /\ \E j \in 1..Len(scores_df) : Flawed(scores_df[j])
    /\ \E j \in 1..Len(scores_df) : ~Flawed(scores_df[j])

\* C30 as claimed: for every rated game whose scores differ, the margin term
\* sign(sa - sh) * |sa - sh + 1|^0.42 is not zero and has the sign of sa - sh,
\* also when one point decided the game.
C30_MarginHasSignOfResult ==
    \A k \in 1..Len(last_game) :
        last_game[k].ascore # last_game[k].hscore =>
            sign(act(last_game[k].ascore, last_game[k].hscore))
                = sign(last_game[k].ascore - last_game[k].hscore)

----------------------------------------------------------------------------
(* The upcoming-game fetcher of getMCBBscoresn.py                           *)
(* (fetch_upcoming_wcbb_games).  It uses the fetcher variables: pc,         *)
(* url_index, n_events, all_game_data, seen_games and csv_file; a row is    *)
(* <<away team, home team, game date (Pacific)>>.                           *)

\* event['date'] values: day of the month and hour of a UTC time
UtcDates == { [day |-> 25, hour |-> 1], [day |-> 25, hour |-> 20], [day |-> 26, hour |-> 1] }

\* convert_to_pacific_date: the day in US/Pacific, eight hours behind UTC in
\* the basketball season
convert_to_pacific_date(utc) == IF utc.hour < 8 THEN utc.day - 1 ELSE utc.day

\* displayName values of a scoreboard response
ScheduleNames == {Georgia, Miami_OH, Georgia_Bulldogs}

ScheduleCompetitors == [homeAway : {"away", "home"}, displayName : ScheduleNames]

\* the loop `for competitor in competitors`: what is not 'away' is the home team
RECURSIVE WalkSchedule(_, _, _)
WalkSchedule(competitors, names, acc) ==
    IF competitors = <<>> THEN acc
    ELSE LET cleaned_name == clean_team_name_n(competitors[1].displayName, names)
         IN  WalkSchedule(Tail(competitors), names,
                          IF competitors[1].homeAway = "away"
                          THEN [acc EXCEPT !.away_team = cleaned_name]
                          ELSE [acc EXCEPT !.home_team = cleaned_name])

\* game_id = (away_team, home_team, game_date_pacific)
ScheduleId(away_team, home_team, game_date_pacific) == <<away_team, home_team, game_date_pacific>>

ScheduleInit ==
    /\ valid_team_names \in {U \in Universes : U \subseteq GamePool}
    /\ order \in Enumerations(valid_team_names)
    /\ script = "getMCBBscoresn"
    /\ pc = "fetch"
    /\ url_index = 0
    /\ n_events = 0
    /\ all_game_data = <<>>
    /\ seen_games = {}
    /\ csv_file = Unset
    /\ reported = <<>>
    /\ ResolverIdle
    /\ MergeIdle
    /\ SyncIdle
    /\ EloIdle
    /\ FetchIdle
    /\ ShareIdle

ScheduleOthers == <<share_vars, fetch_vars, elo_vars, sync_vars, merge_vars, names_vars, resolver_vars, reported>>

\* lines 69-75: the request of the one day of range(1, 2) fails
ScheduleFetchFails ==
    /\ pc = "fetch"
    /\ url_index' = url_index + 1
    /\ pc' = "save"
    /\ UNCHANGED <<ScheduleOthers, n_events, all_game_data, seen_games, csv_file>>

\* lines 69-72
ScheduleFetchOk ==
    /\ pc = "fetch"
    /\ pc' = "events"
    /\ UNCHANGED <<ScheduleOthers, url_index, n_events, all_game_data, seen_games, csv_file>>

\* lines 78-82: the state of the event is not 'pre'
ScheduleSkipEvent ==
    /\ pc = "events"
    /\ n_events < MaxEvents
    /\ n_events' = n_events + 1
    /\ UNCHANGED <<ScheduleOthers, pc, url_index, all_game_data, seen_games, csv_file>>

\* line 78: event['competitions'] is an empty list, [0] raises IndexError
ScheduleNoCompetitions ==
    /\ pc = "events"
    /\ n_events < MaxEvents
    /\ pc' = "crashed"
    /\ UNCHANGED <<ScheduleOthers, url_index, n_events, all_game_data, seen_games, csv_file>>

\* lines 84-102: one upcoming game
ScheduleEvent ==
    /\ pc = "events"
    /\ n_events < MaxEvents
    /\ \E c1, c2 \in ScheduleCompetitors, utc \in UtcDates :
         \E g \in {WalkSchedule(<<c1, c2>>, order, [away_team |-> None, home_team |-> None])} :
            IF /\ ~Falsy(g.away_team) /\ ~Falsy(g.home_team)
               /\ ScheduleId(g.away_team, g.home_team, convert_to_pacific_date(utc)) \notin seen_games
            THEN /\ seen_games' = seen_games
                        \cup {ScheduleId(g.away_team, g.home_team, convert_to_pacific_date(utc))}
                 /\ all_game_data' =
                        Append(all_game_data, <<g.away_team, g.home_team, convert_to_pacific_date(utc)>>)
            ELSE UNCHANGED <<seen_games, all_game_data>>
    /\ n_events' = n_events + 1
    /\ UNCHANGED <<ScheduleOthers, pc, url_index, csv_file>>

\* the events of the response are exhausted
ScheduleEndOfEvents ==
    /\ pc = "events"
    /\ url_index' = url_index + 1
    /\ pc' = "save"
    /\ UNCHANGED <<ScheduleOthers, n_events, all_game_data, seen_games, csv_file>>

\* lines 104-109
ScheduleSave ==
    /\ pc = "save"
    /\ all_game_data # <<>>
    /\ csv_file' = all_game_data
    /\ pc' = "done"
    /\ UNCHANGED <<ScheduleOthers, url_index, n_events, all_game_data, seen_games>>

\* lines 110-111: no game found, no file written
ScheduleNothingFound ==
    /\ pc = "save"
    /\ all_game_data = <<>>
    /\ pc' = "done"
    /\ UNCHANGED <<ScheduleOthers, url_index, n_events, all_game_data, seen_games, csv_file>>

ScheduleNext ==
    \/ ScheduleFetchFails \/ ScheduleFetchOk \/ ScheduleSkipEvent \/ ScheduleNoCompetitions
    \/ ScheduleEvent \/ ScheduleEndOfEvents \/ ScheduleSave \/ ScheduleNothingFound

SpecSchedule == ScheduleInit /\ [][ScheduleNext]_vars

\* C21 as claimed: in the list of upcoming games no two rows have the same
\* unordered pair of teams and the same date, whichever team each event lists
\* as away.
C21_OneRowPerPairAndDate ==
    \A i, j \in 1..Len(all_game_data) :
        i # j => ~ (/\ PairOf(all_game_data[i][1], all_game_data[i][2])
                          = PairOf(all_game_data[j][1], all_game_data[j][2])
                    /\ all_game_data[i][3] = all_game_data[j][3])

----------------------------------------------------------------------------
(* Runs with external fetches: the league loop of update_ratings.py         *)
(* (__main__, get_team_records_from_api, update_csv_file), the one request  *)
(* of espn_scraper.scrape_espn_standings and the two requests of            *)
(* getCFBscores.  A request is sent, then the source answers, fails, or     *)
(* stays silent; a silent source ends the request only through the timeout  *)
(* the call was given.                                                      *)

\* update_ratings.LEAGUES_CONFIG, its keys in insertion order
LEAGUES_CONFIG == <<"nfl.csv", "nba.csv", "cfb.csv", "mcbb.csv", "wcbb.csv">>

FetchScripts == {"update_ratings", "espn_scraper", "getCFBscores"}

\* what each run requests, in order
Requests(s) ==
    CASE s = "update_ratings" -> LEAGUES_CONFIG
      [] s = "espn_scraper"   -> <<"ESPN_STANDINGS_URL">>
      [] s = "getCFBscores"   -> <<"groups=80", "groups=81">>

\* requests.get(url) of update_ratings has no timeout argument; the other
\* calls pass timeout=15 or timeout=10
HasTimeout(s) == s # "update_ratings"

\* a JSON object of the standings API: its 'children' list and the entries
\* under its 'standings' key (none when the key is missing)
Node(children, entries) == [is_dict |-> TRUE, children |-> children, entries |-> entries]

\* a body that is a JSON array
JsonArray == [is_dict |-> FALSE, children |-> <<>>, entries |-> <<>>]

LakersEntry == [displayName |-> Lakers, wins |-> 10, losses |-> 5, complete |-> TRUE]

\* an entry without the 'team' key or without a wins stat
BrokenEntry == [displayName |-> Celtics, wins |-> 0, losses |-> 0, complete |-> FALSE]

\* the entries directly under data['standings']
FlatShape == Node(<<>>, <<LakersEntry>>)

\* the entries one level down: data['children'][i]['standings']
OneLevelShape == Node(<< Node(<<>>, <<LakersEntry>>) >>, <<>>)

\* the entries two levels down: data['children'][i]['children'][j]['standings']
TwoLevelShape == Node(<< Node(<< Node(<<>>, <<LakersEntry>>) >>, <<>>) >>, <<>>)

Responses ==
    { FlatShape, OneLevelShape, TwoLevelShape, JsonArray, Node(<<>>, <<>>),
      Node(<<>>, <<LakersEntry, BrokenEntry>>) }

\* entries.extend(group.get('standings', {}).get('entries', [])) over the groups
RECURSIVE GroupEntries(_)
GroupEntries(groups) ==
    IF groups = <<>> THEN <<>> ELSE groups[1].entries \o GroupEntries(Tail(groups))

\* lines 41-70: every exception of the walk is caught and gives {}
get_team_records_from_api(data) ==
    IF ~data.is_dict THEN <<>>
    ELSE LET entries == IF data.children # <<>> THEN GroupEntries(data.children) ELSE data.entries
         IN  IF \E k \in 1..Len(entries) : ~entries[k].complete THEN <<>>
             ELSE api_records(entries, <<>>)

\* update_ratings.update_csv_file on the store file of one league
update_league_file(file, records) ==
    IF ~file.exists \/ Len(file.header) = 0 THEN file
    ELSE Written(file.header, update_csv_file(records, file.rows))

\* the store file of a league before the run
LeagueFile ==
    [exists |-> TRUE, header |-> fieldnames_nba,
     rows |-> << [c \in Range(fieldnames_nba) |-> CellOf(c, Lakers)] >>]

FetchInit ==
    /\ script \in FetchScripts
    /\ valid_team_names = {}
    /\ order = <<>>
    /\ fetch_index = 1
    /\ fetch_pc = "call"
    /\ source_silent = FALSE
    /\ attempts = [k \in 1..Len(Requests(script)) |-> 0]
    /\ outcome = [k \in 1..Len(Requests(script)) |-> "none"]
    /\ \E file \in {LeagueFile, Absent} :
          league_files = IF script = "update_ratings"
                         THEN [k \in 1..Len(LEAGUES_CONFIG) |-> file] ELSE <<>>
    /\ last_response = <<>>
    /\ ResolverIdle
    /\ GamesIdle
    /\ MergeIdle
    /\ SyncIdle
    /\ EloIdle
    /\ ShareIdle

FetchOthers == <<names_vars, resolver_vars, games_vars, merge_vars, sync_vars, elo_vars, share_vars>>

\* requests.get is called for the next league or URL
SendRequest ==
    /\ fetch_pc = "call"
    /\ fetch_index <= Len(Requests(script))
    /\ fetch_pc' = "waiting"
    /\ attempts' = [attempts EXCEPT ![fetch_index] = @ + 1]
    /\ source_silent' \in BOOLEAN
    /\ UNCHANGED <<FetchOthers, fetch_index, outcome, league_files, last_response>>

\* the league or URL is given up, the loop goes on
GivenUp ==
    /\ outcome' = [outcome EXCEPT ![fetch_index] = "failed"]
    /\ fetch_index' = fetch_index + 1
    /\ fetch_pc' = "call"
    /\ UNCHANGED <<FetchOthers, source_silent, attempts, league_files, last_response>>

\* a connection error or raise_for_status: RequestException is caught
RequestFails ==
    /\ fetch_pc = "waiting"
    /\ ~source_silent
    /\ GivenUp

\* nothing arrived within the timeout: requests raises Timeout, which is caught
RequestTimesOut ==
    /\ fetch_pc = "waiting"
    /\ source_silent
    /\ HasTimeout(script)
    /\ GivenUp

\* update_ratings: the body arrived; records are extracted and, when there
\* are any, the league's file is updated
LeagueAnswered ==
    /\ fetch_pc = "waiting"
    /\ ~source_silent
    /\ script = "update_ratings"
    /\ \E data \in Responses :
         \E records \in {get_team_records_from_api(data)} :
            /\ last_response' = << [data |-> data, records |-> records] >>
            /\ IF records # <<>>
               THEN /\ league_files' = [league_files EXCEPT
                                           ![fetch_index] = update_league_file(@, records)]
                    /\ outcome' = [outcome EXCEPT ![fetch_index] = "updated"]
               ELSE /\ outcome' = [outcome EXCEPT ![fetch_index] = "skipped"]
                    /\ UNCHANGED league_files
    /\ fetch_index' = fetch_index + 1
    /\ fetch_pc' = "call"
    /\ UNCHANGED <<FetchOthers, source_silent, attempts>>

\* espn_scraper, getCFBscores: the body arrived and is handed to the parser
BodyAnswered ==
    /\ fetch_pc = "waiting"
    /\ ~source_silent
    /\ script # "update_ratings"
    /\ outcome' = [outcome EXCEPT ![fetch_index] = "answered"]
    /\ fetch_index' = fetch_index + 1
    /\ fetch_pc' = "call"
    /\ UNCHANGED <<FetchOthers, source_silent, attempts, league_files, last_response>>

\* the loop is exhausted
RunFinished ==
    /\ fetch_pc = "call"
    /\ fetch_index > Len(Requests(script))
    /\ fetch_pc' = "finished"
    /\ UNCHANGED <<FetchOthers, fetch_index, source_silent, attempts, outcome, league_files, last_response>>

FetchNext ==
    SendRequest \/ RequestFails \/ RequestTimesOut \/ LeagueAnswered \/ BodyAnswered \/ RunFinished

SpecFetch == FetchInit /\ [][FetchNext]_vars

\* the process keeps running: a step that can be taken is taken
SpecFetchFair == SpecFetch /\ WF_vars(FetchNext)

----------------------------------------------------------------------------
(* Claims about the runs with external fetches.                             *)

\* C22 as claimed: in the run of update_ratings no league is requested
\* twice, a league whose fetch or parse failed keeps its store file as it
\* was, and every league of LEAGUES_CONFIG is in the end requested once,
\* whatever happened to the leagues before it.
C22_EveryLeagueAttemptedOnce ==
    /\ [](script = "update_ratings" =>
             \A k \in 1..Len(attempts) :
                 /\ attempts[k] <= 1
                 /\ outcome[k] \in {"failed", "skipped"} =>
                        league_files[k] \in {LeagueFile, Absent})
    /\ (script = "update_ratings" => <>(\A k \in 1..Len(attempts) : attempts[k] = 1))

\* C23 as claimed: every request carries a timeout, so that every run
\* finishes, also when a source never answers.
C23_EveryRunFinishes == <>(fetch_pc \in {"finished", "idle"})

\* the entries of a body, down to two levels under 'children'
EntriesWithin(data) ==
    data.entries \o GroupEntries(data.children)
        \o (IF data.children = <<>> THEN <<>>
            ELSE GroupEntries(data.children[1].children))

\* C24 as claimed: from a body that holds well-formed entries flat, one level
\* under 'children' or two levels under 'children' the extractor returns the
\* records of those entries; from any other body it returns the empty result.
C24_ThreeShapesExtracted ==
    \A k \in 1..Len(last_response) :
        IF /\ last_response[k].data.is_dict
           /\ \A e \in 1..Len(EntriesWithin(last_response[k].data)) :
                  EntriesWithin(last_response[k].data)[e].complete
        THEN last_response[k].records = api_records(EntriesWithin(last_response[k].data), <<>>)
        ELSE last_response[k].records = <<>>


----------------------------------------------------------------------------
(* elo_updater_nba.py and NBA_Standings_Scraper.py both name data/nba.csv   *)
(* as the file they read and write. Runs of the two scripts on one file,   *)
(* in any order; each run is one step. A file is exists, header and rows;  *)
(* a row is a function from its columns to cells, a Rating cell being the  *)
(* number pandas reads from it.                                            *)

\* the most runs that are followed
MaxRuns == 3

\* lines 79-93 of process_games: the game row is skipped
GameSkipped(d, row) ==
    \/ scores_raise(row) # "no"
    \/ ~HasItem(d, row.AwayTeam)
    \/ ~HasItem(d, row.HomeTeam)

\* lines 74-102 of process_games: the dict and the set of updated teams
\* after the loop over the game rows
RECURSIVE games_loop(_, _)
games_loop(scores, st) ==
    IF scores = <<>> THEN st
    ELSE games_loop(Tail(scores),
            IF GameSkipped(st.ratings, scores[1]) THEN st
            ELSE LET row == scores[1]
                     new == calculate_new_elo(GetItem(st.ratings, row.AwayTeam),
                                              GetItem(st.ratings, row.HomeTeam),
                                              row.AwayScore.value, row.HomeScore.value)
                 IN  [ratings |-> set_ratings(st.ratings, row.AwayTeam, row.HomeTeam, new[1], new[2]),
                      updated |-> st.updated \cup {row.AwayTeam, row.HomeTeam}])

\* the columns to_csv writes: Team first (set_index, reset_index), and
\* RatingUpdated last unless the table that was read had it already
output_columns(header) ==
    TeamFirst(header) \o (IF "RatingUpdated" \in Range(header) THEN <<>> ELSE <<"RatingUpdated">>)

\* process_games as one run: file and pc after it. A missing file or a
\* missing Team or Rating column ends the run at the handlers of lines
\* 60-65; int() of an infinite score raises OverflowError, which nothing
\* catches; otherwise the table is written back
process_games(file, scores) ==
    IF ~file.exists \/ ~({"Team", "Rating"} \subseteq Range(file.header))
    THEN [file |-> file, pc |-> "returned"]
    ELSE IF \E j \in 1..Len(scores) : scores_raise(scores[j]) = "OverflowError"
    THEN [file |-> file, pc |-> "crashed"]
    ELSE LET st == games_loop(scores, [ratings |-> to_dict(file.rows), updated |-> {}])
         IN  [file |-> [exists |-> TRUE, header |-> output_columns(file.header),
                        rows |-> output_df(file.rows, st.ratings, st.updated)],
              pc |-> "done"]

\* data/nba.csv as the standings sync leaves it and as process_games
\* expects it
SharedFiles ==
    { [exists |-> TRUE, header |-> fieldnames_nba,
       rows |-> << [c \in Range(fieldnames_nba) |-> CellOf(c, Lakers)],
                   [c \in Range(fieldnames_nba) |-> CellOf(c, Celtics)] >>],
      [exists |-> TRUE, header |-> <<"Team", "Rating", "Division">>,
       rows |-> << RatingRow(Lakers, 1500), RatingRow(Celtics, 1500), RatingRow(Knicks, 1600) >>] }

\* the scores files of the runs: no game, or one game
SharedScores ==
    {<<>>} \cup
    { << [AwayTeam |-> t[1], HomeTeam |-> t[2], AwayScore |-> c[1], HomeScore |-> c[2]] >> :
        t \in {<<Lakers, Celtics>>, <<Knicks, Lakers>>, <<Sonics, Celtics>>},
        c \in {<<IntCell(101), IntCell(100)>>, <<IntCell(100), IntCell(101)>>, <<TextCell, IntCell(100)>>,
               <<IntCell(100), InfCell>>} }

\* what the standings page yields: nothing, or one team's record
SharedScrapes ==
    {<<>>} \cup { << [team |-> t, wins |-> w, losses |-> <<"5">>] >> :
                    t \in {Lakers, Celtics, Knicks}, w \in {<<"1","0">>, <<"0">>} }

ShareInit ==
    /\ script = "nba"
    /\ valid_team_names = {}
    /\ order = <<>>
    /\ shared_file \in SharedFiles
    /\ shared_start = shared_file
    /\ run_log = <<>>
    /\ ResolverIdle
    /\ GamesIdle
    /\ MergeIdle
    /\ SyncIdle
    /\ EloIdle
    /\ FetchIdle

ShareOthers == <<names_vars, resolver_vars, games_vars, merge_vars, sync_vars, elo_vars, fetch_vars>>

\* the run of `name` ended with `result`
Logged(name, result) ==
    /\ Len(run_log) < MaxRuns
    /\ shared_file' = result.file
    /\ run_log' = Append(run_log, [script |-> name, pc |-> result.pc])
    /\ UNCHANGED <<ShareOthers, shared_start>>

\* one run of elo_updater_nba.py
RunProcessGames ==
    \E scores \in SharedScores : Logged("elo_updater_nba", process_games(shared_file, scores))

\* one run of NBA_Standings_Scraper.py
RunStandingsScraper ==
    \E scraped \in SharedScrapes : Logged("NBA_Standings_Scraper", sync_nba(shared_file, scraped))

ShareNext == RunProcessGames \/ RunStandingsScraper

SpecShare == ShareInit /\ [][ShareNext]_vars

\* C29 as claimed: after any sequence of runs of process_games and of the
\* NBA standings sync on the same data/nba.csv, in either order, every run
\* so far completed (none died of an exception) and every team row the file
\* held at the start is still in the file.
C29_RunsCompleteAndRowsStay ==
    /\ \A k \in 1..Len(run_log) : run_log[k].pc # "crashed"
    /\ \A i \in 1..Len(shared_start.rows) :
          \E j \in 1..Len(shared_file.rows) : shared_file.rows[j].Team = shared_start.rows[i].Team

=============================================================================
